---- MODULE Spec2Model ----
(***************************************************************************)
(* Vertical-Select: the column-selection page (src/js/app.js and its React *)
(* port src/unnamed/part_000) and the two find/replace components          *)
(* (src/unnamed/part_001 and src/src/components/FindReplace.tsx).          *)
(*                                                                         *)
(* A JavaScript string is a sequence of one-character strings; offsets in  *)
(* the source are 0-based, TLA+ sequences are 1-based.                     *)
(***************************************************************************)
EXTENDS Integers, Sequences, FiniteSets, TLC

VARIABLES
    impl,               \* which source file the state belongs to
    text,               \* the text buffer (prop `text` / textArea.value)
    selection,          \* selectionState / selection: startX, startY, endX, endY, active,
                        \* justFinishedDragging
    layout,             \* the textarea's geometry: rectangle, padding, scroll, glyph size
    highlighted,        \* the overlay spans <<row, col>> of class selected-column
    findText,           \* useState findText
    replaceText,        \* useState replaceText
    options,            \* useState options
    matches,            \* useState matches
    currentMatchIndex,  \* useState currentMatchIndex
    history,            \* useState history (newest entry first)
    batchReplacements,  \* useState batchReplacements
    savedPatterns,      \* useState savedPatterns, with the rule objects they hold
    isInteractiveMode,  \* useState isInteractiveMode (part_001)
    selectedMatches,    \* useState selectedMatches (part_001)
    scan,               \* the locals of a findMatches call in progress
    pc,                 \* where the running call is
    call,               \* the arguments of the call under way / last made
    ret,                \* what the last call returned
    errors,             \* console.error lines written by the latest scan (count)
    uncaught,           \* an exception left an event handler
    hung,               \* a handler entered a loop it never leaves
    appended,           \* number of history entries ever appended
    budget              \* replace requests the run still follows

vars == <<impl, text, selection, layout, highlighted, findText, replaceText, options, matches,
          currentMatchIndex, history, batchReplacements, savedPatterns,
          isInteractiveMode, selectedMatches, scan, pc, call, ret, errors, uncaught, hung, appended,
          budget>>

----------------------------------------------------------------------------
(* Characters and strings *)

NL == "\n"

Min(a, b) == IF a < b THEN a ELSE b
Max(a, b) == IF a > b THEN a ELSE b

\* String.prototype.toUpperCase / toLowerCase on one character
toUpperChar(c) ==
    CASE c = "a" -> "A" [] c = "x" -> "X" [] c = "y" -> "Y" [] OTHER -> c

toLowerChar(c) ==
    CASE c = "A" -> "a" [] c = "X" -> "x" [] c = "Y" -> "y" [] OTHER -> c

toUpperCase(s) == [k \in 1..Len(s) |-> toUpperChar(s[k])]
toLowerCase(s) == [k \in 1..Len(s) |-> toLowerChar(s[k])]

\* String.prototype.slice(from, to) for 0 <= from (both files call it with
\* non-negative arguments only); `to` is clamped to the length
slice(s, from, to) ==
    LET f == Min(Max(from, 0), Len(s))
        t == Min(Max(to, 0), Len(s))
    IN  IF t > f THEN SubSeq(s, f + 1, t) ELSE <<>>

\* String.prototype.substring(from, to)
substring(s, from, to) ==
    LET f == Min(Max(from, 0), Len(s))
        t == Min(Max(to, 0), Len(s))
    IN  SubSeq(s, Min(f, t) + 1, Max(f, t))

\* Every string over `alphabet` of length at most n
StringsUpTo(alphabet, n) == UNION {[1..k -> alphabet] : k \in 0..n}

\* String.prototype.split('\n'): always at least one line
RECURSIVE splitLines(_)
splitLines(s) ==
    IF \A k \in 1..Len(s) : s[k] # NL THEN <<s>>
    ELSE LET k == CHOOSE i \in 1..Len(s) :
                      s[i] = NL /\ \A j \in 1..(i - 1) : s[j] # NL
         IN  <<SubSeq(s, 1, k - 1)>> \o splitLines(SubSeq(s, k + 1, Len(s)))

\* Array.prototype.join('\n')
RECURSIVE joinLines(_)
joinLines(rows) ==
    IF Len(rows) = 0 THEN <<>>
    ELSE IF Len(rows) = 1 THEN rows[1]
    ELSE rows[1] \o <<NL>> \o joinLines(Tail(rows))

----------------------------------------------------------------------------
(* Column extraction: getSelectedText of app.js and of its React port *)

Pages == {"app.js", "part_000"}
Components == {"part_001", "FindReplace.tsx"}

minRowOf(sel) == Min(sel.startY, sel.endY)
maxRowOf(sel) == Max(sel.startY, sel.endY)
minColOf(sel) == Min(sel.startX, sel.endX)
maxColOf(sel) == Max(sel.startX, sel.endX)

\* an off-by-one in the end column: maxCol taken as exclusive
selectedRowExclusive(line, minCol, maxCol) ==
    LET startCol == Min(minCol, Len(line))
        endCol == Min(maxCol, Len(line))
    IN  IF endCol > startCol THEN slice(line, startCol, endCol) ELSE <<>>

\* the body of the row loop for a row that exists
selectedRow(line, minCol, maxCol) ==
    LET startCol == Min(minCol, Len(line))
        endCol == Min(maxCol + 1, Len(line))
    IN  IF endCol > startCol THEN slice(line, startCol, endCol) ELSE <<>>

\* the row loop without the push for a row past the last line
getSelectedTextSkipping(txt, sel) ==
    LET lines == splitLines(txt)
        rows == [i \in 1..(maxRowOf(sel) - minRowOf(sel) + 1) |->
                    LET r == minRowOf(sel) + i - 1
                    IN  IF r >= Len(lines) THEN <<>>
                        ELSE selectedRow(lines[r + 1], minColOf(sel), maxColOf(sel))]
    IN  joinLines(SubSeq(rows, 1, Min(Len(rows), Max(0, Len(lines) - minRowOf(sel)))))

getSelectedText(txt, sel) ==
    LET lines == splitLines(txt)
        selectedLines == [i \in 1..(maxRowOf(sel) - minRowOf(sel) + 1) |->
                    LET r == minRowOf(sel) + i - 1
                    IN  IF r >= Len(lines) THEN <<>>
                        ELSE selectedRow(lines[r + 1], minColOf(sel), maxColOf(sel))]
    IN  joinLines(selectedLines)

----------------------------------------------------------------------------
(* Case-preserving substitution *)

\* replacement.charAt(0).toUpperCase() + replacement.slice(1).toLowerCase()
capitalize(replacement) ==
    IF Len(replacement) = 0 THEN <<>>
    ELSE <<toUpperChar(replacement[1])>> \o toLowerCase(Tail(replacement))

\* FindReplace.tsx: replaceWithCasePreservation (options.preserveCase passed in)
replaceWithCasePreservation(preserve, original, replacement) ==
    IF ~preserve THEN replacement
    ELSE IF original = toUpperCase(original) THEN toUpperCase(replacement)
    ELSE IF original = toLowerCase(original) THEN toLowerCase(replacement)
    ELSE IF /\ original[1] = toUpperChar(original[1])
            /\ Tail(original) = toLowerCase(Tail(original))
         THEN capitalize(replacement)
    ELSE replacement

\* part_001: preserveCase (options.smartCase passed in).  The third branch
\* looks at the first character only.
preserveCase(smartCase, original, replacement) ==
    IF ~smartCase THEN replacement
    ELSE IF original = toUpperCase(original) THEN toUpperCase(replacement)
    ELSE IF original = toLowerCase(original) THEN toLowerCase(replacement)
    ELSE IF original[1] = toUpperChar(original[1]) THEN capitalize(replacement)
    ELSE replacement

\* the substituted text for one match, as each component computes it at the
\* call site (`options.smartCase ? preserveCase(...) : replaceText`)
substituteFor(component, smart, original, replacement) ==
    IF component = "part_001"
    THEN (IF smart THEN preserveCase(smart, original, replacement) ELSE replacement)
    ELSE replaceWithCasePreservation(smart, original, replacement)

----------------------------------------------------------------------------
(* The components' state right after mounting *)

NoRange == [set |-> FALSE, start |-> 0, end |-> 0]
NoCall == [fn |-> "none"]
NoScan == [status |-> "idle", lineIndex |-> 0, globalIndex |-> 0, lastIndex |-> 0,
           found |-> <<>>, iter |-> 0, errors |-> 0]
NoSelection == [startX |-> 0, startY |-> 0, endX |-> 0, endY |-> 0, active |-> FALSE,
                justFinishedDragging |-> FALSE]

\* an unscrolled textarea at the viewport's corner, one pixel per glyph cell
AtRest == [left |-> 0, top |-> 0, paddingLeft |-> 0, paddingTop |-> 0,
           scrollLeft |-> 0, scrollTop |-> 0, charWidth |-> 1, lineHeight |-> 1]

\* the page before any drag
Unselected ==
    /\ selection = NoSelection
    /\ layout = AtRest
    /\ highlighted = {}

\* useState initial values; the mount effect has run findMatches with the
\* empty findText
InitialOptions(component) ==
    [caseSensitive |-> FALSE, wholeWord |-> FALSE, useRegex |-> FALSE,
     replaceFirst |-> FALSE, smartCase |-> (component = "part_001"),
     lineRange |-> NoRange, contextFilter |-> <<>>]

InitialBatch(component) ==
    IF component = "part_001" THEN <<>>
    ELSE <<[find |-> <<>>, replace |-> <<>>, enabled |-> TRUE]>>

\* no pattern saved. The rules of FindReplace.tsx are objects: store holds
\* the objects a saved pattern refers to, current tells for each element of
\* batchReplacements which of them it is (0: an object no pattern holds)
NoPatterns(component, batch) ==
    [store |-> <<>>, entries |-> <<>>,
     current |-> IF component = "part_001" THEN <<>> ELSE [i \in 1..Len(batch) |-> 0]]

Mounted(component) ==
    /\ findText = <<>>
    /\ replaceText = <<>>
    /\ options = InitialOptions(component)
    /\ matches = <<>>
    /\ currentMatchIndex = (IF component = "part_001" THEN -1 ELSE 0)
    /\ history = <<>>
    /\ batchReplacements = InitialBatch(component)
    /\ savedPatterns = NoPatterns(component, batchReplacements)
    /\ isInteractiveMode = FALSE
    /\ selectedMatches = {}
    /\ appended = 0

Quiet ==
    /\ scan = NoScan
    /\ errors = 0
    /\ uncaught = FALSE
    /\ hung = FALSE

sessionVars == <<findText, replaceText, options, matches, currentMatchIndex,
                 history, batchReplacements, savedPatterns, isInteractiveMode,
                 selectedMatches, appended, budget>>
faultVars == <<errors, uncaught, hung>>

----------------------------------------------------------------------------
(* Specification of the extraction call: any text, any region *)

MaxExtractLen == 4
MaxRow == 3
MaxCol == 2

ExtractTexts == StringsUpTo({"a", "X", NL}, MaxExtractLen)

InitExtract ==
    /\ impl \in Pages
    /\ text \in ExtractTexts
    /\ selection \in [startX : 0..MaxCol, startY : 0..MaxRow,
                      endX : 0..MaxCol, endY : 0..MaxRow, active : {FALSE},
                      justFinishedDragging : {FALSE}]
    /\ layout = AtRest
    /\ highlighted = {}
    /\ pc = "idle"
    /\ call = NoCall
    /\ ret = <<>>
    /\ Mounted("part_001")
    /\ budget = 0
    /\ Quiet

\* handleCopy's call of getSelectedText
CallGetSelectedText ==
    /\ pc = "idle"
    /\ call' = [fn |-> "getSelectedText"]
    /\ ret' = getSelectedText(text, selection)
    /\ pc' = "returned"
    /\ UNCHANGED <<impl, text, selection, layout, highlighted, scan>>
    /\ UNCHANGED sessionVars
    /\ UNCHANGED faultVars

NextExtract == CallGetSelectedText

SpecExtract == InitExtract /\ [][NextExtract]_vars

\* C8: extract returns exactly maxRow - minRow + 1 newline-joined rows, and a
\* row whose index is at or past the number of lines of the text is empty.
C8_RowCount ==
    pc = "returned" /\ call.fn = "getSelectedText" =>
        LET rows == splitLines(ret)
            lines == splitLines(text)
        IN  /\ Len(rows) = maxRowOf(selection) - minRowOf(selection) + 1
            /\ \A i \in 1..Len(rows) :
                   minRowOf(selection) + i - 1 >= Len(lines) => rows[i] = <<>>

\* two lines of text, rows 0..3 asked for
C8_Witness ==
    /\ pc = "returned" /\ call.fn = "getSelectedText"
    /\ Len(splitLines(text)) = 2
    /\ minRowOf(selection) = 0 /\ maxRowOf(selection) = 3
    /\ splitLines(ret)[1] # <<>>

\* C9: a row that exists is the characters of its line at the columns
\* max(0, minCol) .. min(maxCol, length - 1), in order, and is empty when
\* minCol is at or past the end of the line.
C9_RowContent ==
    pc = "returned" /\ call.fn = "getSelectedText" =>
        LET rows == splitLines(ret)
            lines == splitLines(text)
        IN  \A r \in minRowOf(selection)..maxRowOf(selection) :
                r < Len(lines) =>
                    LET line == lines[r + 1]
                        lo == Max(0, minColOf(selection))
                        hi == Min(maxColOf(selection), Len(line) - 1)
                        row == rows[r - minRowOf(selection) + 1]
                    IN  /\ Len(row) = Max(0, hi - lo + 1)
                        /\ \A k \in 1..Len(row) : row[k] = line[lo + k]
                        /\ (minColOf(selection) >= Len(line) => row = <<>>)

\* a row clipped at the end of its line and another one past the line's end
C9_Witness ==
    /\ pc = "returned" /\ call.fn = "getSelectedText"
    /\ \E r \in minRowOf(selection)..maxRowOf(selection) :
           /\ r < Len(splitLines(text))
           /\ minColOf(selection) > 0
           /\ minColOf(selection) < Len(splitLines(text)[r + 1])
           /\ maxColOf(selection) >= Len(splitLines(text)[r + 1])
    /\ \E r \in minRowOf(selection)..maxRowOf(selection) :
           /\ r < Len(splitLines(text))
           /\ minColOf(selection) >= Len(splitLines(text)[r + 1])

----------------------------------------------------------------------------
(* The host's RegExp, for the patterns the model feeds it: literal         *)
(* characters, `c*`, `\b`, backslash escapes, and an unclosed `(`.         *)

BS == "\\"
RegexMeta == {".", "*", "+", "?", "^", "$", "{", "}", "(", ")", "|", "[", "]", BS}

\* findText.replace(/[.*+?^${}()|[\]\\]/g, '\\$&')
RECURSIVE escapeRegExp(_)
escapeRegExp(s) ==
    IF s = <<>> THEN <<>>
    ELSE (IF Head(s) \in RegexMeta THEN <<BS, Head(s)>> ELSE <<Head(s)>>)
             \o escapeRegExp(Tail(s))

SyntaxError == [ok |-> FALSE, atoms |-> <<>>, ignoreCase |-> FALSE]

\* new RegExp(source, flags): the atoms of the pattern, or a SyntaxError
RECURSIVE parseAtoms(_, _, _)
parseAtoms(src, i, acc) ==
    IF i > Len(src) THEN [ok |-> TRUE, atoms |-> acc]
    ELSE IF src[i] = "(" THEN [ok |-> FALSE, atoms |-> <<>>]
    ELSE IF src[i] = "*"
         THEN IF acc = <<>> \/ acc[Len(acc)].t # "chr"
              THEN [ok |-> FALSE, atoms |-> <<>>]
              ELSE parseAtoms(src, i + 1,
                       [acc EXCEPT ![Len(acc)] = [t |-> "star", c |-> @.c]])
    ELSE IF src[i] = BS
         THEN IF i = Len(src) THEN [ok |-> FALSE, atoms |-> <<>>]
              ELSE IF src[i + 1] = "b"
                   THEN parseAtoms(src, i + 2, Append(acc, [t |-> "wb", c |-> ""]))
                   ELSE parseAtoms(src, i + 2, Append(acc, [t |-> "chr", c |-> src[i + 1]]))
    ELSE parseAtoms(src, i + 1, Append(acc, [t |-> "chr", c |-> src[i]]))

RegExpNew(src, ignoreCase) ==
    LET p == parseAtoms(src, 1, <<>>)
    IN  IF p.ok THEN [ok |-> TRUE, atoms |-> p.atoms, ignoreCase |-> ignoreCase]
        ELSE SyntaxError

WordChars == {"a", "A", "x", "X", "y", "Y", "_"}     \* \w of the alphabet used
AlnumChars == {"a", "A", "x", "X", "y", "Y"}         \* [a-zA-Z0-9] of it

\* \b at 0-based position i of s
isWordBoundary(s, i) ==
    LET before == i >= 1 /\ i <= Len(s) /\ s[i] \in WordChars
        after == i < Len(s) /\ s[i + 1] \in WordChars
    IN  before # after

charMatches(c, d, ignoreCase) ==
    IF ignoreCase THEN toLowerChar(c) = toLowerChar(d) ELSE c = d

\* number of consecutive characters matching c from 0-based position i
RECURSIVE runLength(_, _, _, _)
runLength(s, i, c, ignoreCase) ==
    IF i < Len(s) /\ charMatches(s[i + 1], c, ignoreCase)
    THEN 1 + runLength(s, i + 1, c, ignoreCase) ELSE 0

\* backtracking match of atoms[k..] at 0-based position i: the end position
\* of the match, or -1
RECURSIVE matchHere(_, _, _, _, _)
RECURSIVE matchStar(_, _, _, _, _, _)
matchHere(atoms, k, s, i, ignoreCase) ==
    IF k > Len(atoms) THEN i
    ELSE IF atoms[k].t = "wb"
         THEN IF isWordBoundary(s, i) THEN matchHere(atoms, k + 1, s, i, ignoreCase)
              ELSE -1
    ELSE IF atoms[k].t = "chr"
         THEN IF i < Len(s) /\ charMatches(s[i + 1], atoms[k].c, ignoreCase)
              THEN matchHere(atoms, k + 1, s, i + 1, ignoreCase)
              ELSE -1
    ELSE matchStar(atoms, k, s, i, ignoreCase,
                   runLength(s, i, atoms[k].c, ignoreCase))

\* greedy: the longest run first
matchStar(atoms, k, s, i, ignoreCase, n) ==
    LET e == matchHere(atoms, k + 1, s, i + n, ignoreCase)
    IN  IF e # -1 THEN e
        ELSE IF n = 0 THEN -1
        ELSE matchStar(atoms, k, s, i, ignoreCase, n - 1)

NoMatch == [index |-> -1, end |-> -1]

\* RegExp.prototype.exec of a global regex whose lastIndex is `lastIndex`:
\* the leftmost match at or after it (the regex's lastIndex becomes .end)
RegExpExec(re, s, lastIndex) ==
    IF lastIndex > Len(s) THEN NoMatch
    ELSE LET starts == {i \in lastIndex..Len(s) :
                            matchHere(re.atoms, 1, s, i, re.ignoreCase) # -1}
         IN  IF starts = {} THEN NoMatch
             ELSE LET i == CHOOSE j \in starts : \A k \in starts : j <= k
                  IN  [index |-> i,
                       end |-> matchHere(re.atoms, 1, s, i, re.ignoreCase)]

\* RegExp.prototype.test of a regex without the g flag
RegExpTest(re, s) == RegExpExec(re, s, 0).index # -1

\* String.prototype.indexOf(pattern, from) for a non-empty pattern
indexOf(s, pattern, from) ==
    LET starts == {i \in Max(from, 0)..(Len(s) - Len(pattern)) :
                       SubSeq(s, i + 1, i + Len(pattern)) = pattern}
    IN  IF starts = {} THEN -1
        ELSE CHOOSE j \in starts : \A k \in starts : j <= k

\* String.prototype.lastIndexOf('\n', from)
lastIndexOfNL(s, from) ==
    LET at == {i \in 0..Min(from, Len(s) - 1) : s[i + 1] = NL}
    IN  IF at = {} THEN -1
        ELSE CHOOSE j \in at : \A k \in at : j >= k

\* String.prototype.indexOf('\n', from)
indexOfNL(s, from) == indexOf(s, <<NL>>, from)

Whitespace == {" ", NL}

\* String.prototype.trim
RECURSIVE trimStart(_)
trimStart(s) == IF s # <<>> /\ Head(s) \in Whitespace THEN trimStart(Tail(s)) ELSE s
RECURSIVE trimEnd(_)
trimEnd(s) ==
    IF s # <<>> /\ s[Len(s)] \in Whitespace THEN trimEnd(SubSeq(s, 1, Len(s) - 1)) ELSE s
trim(s) == trimEnd(trimStart(s))

----------------------------------------------------------------------------
(* findMatches of both components, one loop iteration at a time.           *)
(* A call's locals: status ("loop" while the scan loop runs, "done" when   *)
(* it has run to the end, "empty" for the early return on an empty         *)
(* findText, "threw" when the catch block ran), the line being scanned and *)
(* the offset of its start (FindReplace.tsx), the regex's lastIndex or the *)
(* literal search's index, the matches pushed so far, the number of        *)
(* iterations made and of console.error calls.                             *)

ContextRadius == 50         \* part_001: the 50 of the context window
ContextRadiusTsx == 20      \* FindReplace.tsx: the 20 of the context window
Ellipsis == <<".", ".", ".">>

ScanStartAccumulating(status) ==
    [status |-> status, lineIndex |-> 0, globalIndex |-> 0, lastIndex |-> 0,
     found |-> scan.found, iter |-> 0, errors |-> 0]

\* the locals of a findMatches call at its start: every call makes its own
\* RegExp and its own array of matches
ScanStart(status) ==
    [status |-> status, lineIndex |-> 0, globalIndex |-> 0, lastIndex |-> 0,
     found |-> <<>>, iter |-> 0, errors |-> 0]

\* part_001 lines 134-145: the effective pattern
effectivePattern(ft, opts) ==
    IF opts.useRegex THEN RegExpNew(ft, ~opts.caseSensitive)
    ELSE LET escapedFind == escapeRegExp(ft)
         IN  RegExpNew(IF opts.wholeWord
                       THEN <<BS, "b">> \o escapedFind \o <<BS, "b">>
                       ELSE escapedFind,
                       ~opts.caseSensitive)

\* part_001 lines 123-145: entry of findMatches up to the loop
findMatchesEnter(txt, ft, opts) ==
    IF ft = <<>> THEN ScanStart("empty")
    ELSE IF ~effectivePattern(ft, opts).ok
         THEN [ScanStart("threw") EXCEPT !.errors = 1]
    ELSE ScanStart("loop")

\* the line number counted from 0
lineNumberFromZero(txt, index) == Len(splitLines(substring(txt, 0, index))) - 1

\* part_001 lines 149-155: lineNumber and context of a match
lineNumberAt(txt, index) == Len(splitLines(substring(txt, 0, index)))

contextAt(txt, m) ==
    LET lineStart == lastIndexOfNL(txt, m.index) + 1
        lineEnd == indexOfNL(txt, m.index)
    IN  substring(txt, Max(0, lineStart - ContextRadius),
                  IF lineEnd = -1
                  THEN Min(Len(txt), m.end + ContextRadius)
                  ELSE Min(lineEnd + ContextRadius, Len(txt)))

\* part_001 lines 147-184: one evaluation of the while condition and body
findMatchesIter(txt, ft, opts, st) ==
    LET m == RegExpExec(effectivePattern(ft, opts), txt, st.lastIndex)
        lineNumber == lineNumberAt(txt, m.index)
        context == contextAt(txt, m)
        it == [st EXCEPT !.iter = @ + 1]
    IN  IF m.index = -1 THEN [it EXCEPT !.status = "done", !.lastIndex = 0]
        ELSE IF /\ opts.lineRange.set
                /\ (lineNumber < opts.lineRange.start \/ lineNumber > opts.lineRange.end)
             THEN [it EXCEPT !.lastIndex = m.end]                       \* continue
        ELSE IF opts.contextFilter # <<>> /\ ~RegExpNew(opts.contextFilter, TRUE).ok
             THEN [it EXCEPT !.status = "threw", !.errors = @ + 1]      \* catch
        ELSE IF /\ opts.contextFilter # <<>>
                /\ ~RegExpTest(RegExpNew(opts.contextFilter, TRUE), context)
             THEN [it EXCEPT !.lastIndex = m.end]                       \* continue
        ELSE [it EXCEPT
                 !.found = Append(@, [index |-> m.index, length |-> m.end - m.index,
                                      text |-> SubSeq(txt, m.index + 1, m.end),
                                      lineNumber |-> lineNumber,
                                      context |-> trim(context)]),
                 !.lastIndex = IF m.end = m.index THEN m.end + 1 ELSE m.end]

\* FindReplace.tsx lines 80-88: entry of findMatches up to lines.forEach
findMatchesEnterTsx(txt, ft, opts) ==
    IF ft = <<>> THEN ScanStart("empty") ELSE ScanStart("loop")

\* FindReplace.tsx lines 119-129 / 146-156: the pushed record
matchRecordTsx(line, st, from, to) ==
    LET contextStart == Max(0, from - ContextRadiusTsx)
        contextEnd == Min(Len(line), to + ContextRadiusTsx)
        context == slice(line, contextStart, contextEnd)
    IN  [start |-> st.globalIndex + from,
         end |-> st.globalIndex + to,
         text |-> slice(line, from, to),
         line |-> st.lineIndex + 1,
         context |-> IF contextStart > 0 THEN Ellipsis \o context
                     ELSE context \o (IF contextEnd < Len(line) THEN Ellipsis ELSE <<>>)]

\* FindReplace.tsx lines 112-116 / 138-143: the whole-word test
adjacentAlnum(line, from, to) ==
    \/ from >= 1 /\ line[from] \in AlnumChars
    \/ to < Len(line) /\ line[to + 1] \in AlnumChars

\* FindReplace.tsx line 158: index += 1 after a pushed literal match
literalAdvance(index, searchPattern) == index + 1

\* FindReplace.tsx lines 90-163: one step of lines.forEach: either one
\* iteration of the inner while loop, or the move to the next line
findMatchesIterTsx(txt, ft, opts, st) ==
    LET lines == splitLines(txt)
        it == [st EXCEPT !.iter = @ + 1]
    IN  IF st.lineIndex >= Len(lines) THEN [it EXCEPT !.status = "done"]
        ELSE
        LET line == lines[st.lineIndex + 1]
            nextLine == [it EXCEPT !.lineIndex = @ + 1,
                                   !.globalIndex = @ + Len(line) + 1,
                                   !.lastIndex = 0]
            searchText == IF opts.caseSensitive THEN line ELSE toLowerCase(line)
            searchPattern == IF opts.caseSensitive THEN ft ELSE toLowerCase(ft)
        IN  IF /\ opts.lineRange.set
               /\ (st.lineIndex < opts.lineRange.start \/ st.lineIndex > opts.lineRange.end)
            THEN nextLine
            ELSE IF opts.useRegex
            THEN LET regex == RegExpNew(searchPattern, ~opts.caseSensitive)
                     m == RegExpExec(regex, line, st.lastIndex)
                 IN  IF ~regex.ok THEN [nextLine EXCEPT !.errors = @ + 1]
                     ELSE IF m.index = -1 THEN nextLine
                     ELSE IF opts.wholeWord /\ adjacentAlnum(line, m.index, m.end)
                          THEN [it EXCEPT !.lastIndex = m.end]          \* continue
                     ELSE [it EXCEPT
                              !.found = Append(@, matchRecordTsx(line, st, m.index, m.end)),
                              !.lastIndex = m.end]
            ELSE LET index == indexOf(searchText, searchPattern, st.lastIndex)
                 IN  IF index = -1 THEN nextLine
                     ELSE IF /\ opts.wholeWord
                             /\ adjacentAlnum(line, index, index + Len(searchPattern))
                          THEN [it EXCEPT !.lastIndex = index + 1]
                     ELSE [it EXCEPT
                              !.found = Append(@, matchRecordTsx(line, st, index,
                                                     index + Len(searchPattern))),
                              !.lastIndex = literalAdvance(index, searchPattern)]

scanEnter(component, txt, ft, opts) ==
    IF component = "part_001" THEN findMatchesEnter(txt, ft, opts)
    ELSE findMatchesEnterTsx(txt, ft, opts)

scanIter(component, txt, ft, opts, st) ==
    IF component = "part_001" THEN findMatchesIter(txt, ft, opts, st)
    ELSE findMatchesIterTsx(txt, ft, opts, st)

\* the scan cursor: the line, then the position in it
cursorBefore(a, b) ==
    \/ a.lineIndex < b.lineIndex
    \/ a.lineIndex = b.lineIndex /\ a.lastIndex < b.lastIndex

\* offsets of a Match record of either component
startOffset(m) == IF "index" \in DOMAIN m THEN m.index ELSE m.start
endOffset(m) == IF "index" \in DOMAIN m THEN m.index + m.length ELSE m.end

----------------------------------------------------------------------------
(* Specification of one findMatches call, iteration by iteration *)

MaxScanLen == 3     \* longest text scanned
MaxIter == 7        \* iterations followed of a loop that does not end

ScanTexts == StringsUpTo({"a", "A", NL}, MaxScanLen)
FindTexts == {<<>>, <<"a">>, <<"a", "a">>, <<"a", "*">>, <<"(">>}
LineRanges == {NoRange, [set |-> TRUE, start |-> 1, end |-> 1],
               [set |-> TRUE, start |-> 2, end |-> 2]}
ContextFilters == {<<>>, <<"A">>, <<"(">>}

\* the options a user of the component can have set: FindReplace.tsx has no
\* control for lineRange and no contextFilter
ScanOptions(component) ==
    {[InitialOptions(component) EXCEPT !.caseSensitive = cs, !.wholeWord = ww,
                                       !.useRegex = re, !.lineRange = lr,
                                       !.contextFilter = cf] :
        cs \in BOOLEAN, ww \in BOOLEAN, re \in BOOLEAN,
        lr \in (IF component = "part_001" THEN LineRanges ELSE {NoRange}),
        cf \in (IF component = "part_001" THEN ContextFilters ELSE {<<>>})}

InitScan ==
    /\ impl \in Components
    /\ text \in ScanTexts
    /\ Unselected
    /\ findText \in FindTexts
    /\ replaceText = <<>>
    /\ options \in ScanOptions(impl)
    /\ matches = <<>>
    /\ currentMatchIndex = (IF impl = "part_001" THEN -1 ELSE 0)
    /\ history = <<>>
    /\ batchReplacements = InitialBatch(impl)
    /\ savedPatterns = NoPatterns(impl, batchReplacements)
    /\ isInteractiveMode = FALSE
    /\ selectedMatches = {}
    /\ appended = 0
    /\ budget = 0
    /\ pc = "idle"
    /\ call = NoCall
    /\ ret = <<>>
    /\ Quiet

scanFrame == <<impl, text, selection, layout, highlighted, findText, replaceText, options, history,
               batchReplacements, savedPatterns, isInteractiveMode, selectedMatches,
               appended, budget, ret, uncaught, hung>>

\* the effect of lines 107-114 (part_001) / 300-302 (FindReplace.tsx) starts
\* a scan
ScanEnter ==
    /\ pc = "idle"
    /\ pc' = "scanning"
    /\ call' = [fn |-> "findMatches"]
    /\ scan' = scanEnter(impl, text, findText, options)
    /\ UNCHANGED <<matches, currentMatchIndex, errors>>
    /\ UNCHANGED scanFrame

\* the loop makes one more iteration
ScanIterate ==
    /\ pc = "scanning"
    /\ scan.status = "loop"
    /\ scan.iter < MaxIter
    /\ scan' = scanIter(impl, text, findText, options, scan)
    /\ UNCHANGED <<pc, call, matches, currentMatchIndex, errors>>
    /\ UNCHANGED scanFrame

\* what a finished call leaves in the component's state
matchesAfter(st) == IF st.status = "done" THEN st.found ELSE <<>>

currentMatchIndexAfter(component, st, before) ==
    IF st.status = "done" THEN (IF Len(st.found) > 0 THEN 0 ELSE -1)
    ELSE IF st.status = "empty" /\ component = "part_001" THEN -1
    ELSE before

\* the call returns: setMatches, setCurrentMatchIndex
ScanReturn ==
    /\ pc = "scanning"
    /\ scan.status \in {"done", "empty", "threw"}
    /\ pc' = "returned"
    /\ matches' = matchesAfter(scan)
    /\ currentMatchIndex' = currentMatchIndexAfter(impl, scan, currentMatchIndex)
    /\ errors' = scan.errors
    /\ UNCHANGED <<scan, call>>
    /\ UNCHANGED scanFrame

NextScan == ScanEnter \/ ScanIterate \/ ScanReturn

SpecScan == InitScan /\ [][NextScan]_vars

\* C2: the match list a scan returns is strictly ascending by startOffset and
\* no two matches overlap, in literal and in regex mode.
C2_SortedNoOverlap ==
    pc = "returned" /\ call.fn = "findMatches" =>
        \A i \in 1..(Len(matches) - 1) :
            /\ startOffset(matches[i]) < startOffset(matches[i + 1])
            /\ endOffset(matches[i]) <= startOffset(matches[i + 1])

\* C3: every loop iteration that leaves the scan running has moved the scan
\* cursor forward, so the scan ends; in particular after a zero-length match.
C3_CursorAdvances ==
    [][(scan.status = "loop" /\ scan'.status = "loop" /\ scan'.iter = scan.iter + 1)
          => cursorBefore(scan, scan')]_vars

\* C4: every returned match has 0 <= startOffset < endOffset <= length(text).
C4_OffsetsInText ==
    pc = "returned" /\ call.fn = "findMatches" =>
        \A i \in 1..Len(matches) :
            /\ 0 <= startOffset(matches[i])
            /\ startOffset(matches[i]) < endOffset(matches[i])
            /\ endOffset(matches[i]) <= Len(text)

----------------------------------------------------------------------------
(* A whole findMatches call, as the handlers of a session run it *)

\* the loop run to its end; a loop whose iteration leaves the cursor where it
\* was repeats that iteration for ever: status "hang"
RECURSIVE runLoop(_, _, _, _, _)

\* st is the loop before an iteration and nx the loop after it
runLoopStep(component, txt, ft, opts, st, nx) ==
    IF nx.status = "loop" /\ ~cursorBefore(st, nx)
    THEN [nx EXCEPT !.status = "hang"]
    ELSE runLoop(component, txt, ft, opts, nx)

runLoop(component, txt, ft, opts, st) ==
    IF st.status # "loop" THEN st
    ELSE runLoopStep(component, txt, ft, opts, st, scanIter(component, txt, ft, opts, st))

findMatches(component, txt, ft, opts) ==
    runLoop(component, txt, ft, opts, scanEnter(component, txt, ft, opts))

----------------------------------------------------------------------------
(* performReplace of both components *)

\* [...ms].sort((a, b) => b.index - a.index): stable, descending by start
RECURSIVE insertDescending(_, _)
insertDescending(sorted, m) ==
    IF sorted = <<>> THEN <<m>>
    ELSE IF startOffset(Head(sorted)) >= startOffset(m)
         THEN <<Head(sorted)>> \o insertDescending(Tail(sorted), m)
         ELSE <<m>> \o sorted

RECURSIVE sortDescending(_)
sortDescending(ms) ==
    IF ms = <<>> THEN <<>>
    ELSE insertDescending(sortDescending(SubSeq(ms, 1, Len(ms) - 1)), ms[Len(ms)])

\* the order of substitution without the sort: as scanned, lowest offset first
sortedMatchesAscending(ms) == ms

\* part_001 line 252 / FindReplace.tsx line 193: the order of substitution
sortedMatches(ms) == sortDescending(ms)

\* result.substring(0, m.index) + replacement + result.substring(m.index + m.length)
spliceMatch(result, m, replacement) ==
    substring(result, 0, startOffset(m)) \o replacement
        \o substring(result, endOffset(m), Len(result))

\* the forEach / for-of loop over the sorted matches
RECURSIVE replaceEach(_, _, _, _, _)
replaceEach(component, result, ms, replacement, smart) ==
    IF ms = <<>> THEN result
    ELSE replaceEach(component,
                     spliceMatch(result, Head(ms),
                                 substituteFor(component, smart, Head(ms).text, replacement)),
                     Tail(ms), replacement, smart)

\* matches.filter((_, index) => selectedMatches.has(index))
RECURSIVE filterSelected(_, _, _)
filterSelected(ms, selected, index) ==
    IF ms = <<>> THEN <<>>
    ELSE (IF index \in selected THEN <<Head(ms)>> ELSE <<>>)
             \o filterSelected(Tail(ms), selected, index + 1)

\* part_001 lines 238-240: matchesToReplace
matchesToReplace(ms, interactive, selected) ==
    IF interactive THEN filterSelected(ms, selected, 0) ELSE ms

\* part_001 lines 246-257: the matches substituted, in the order scanned
substituted(opts, toReplace) ==
    IF opts.replaceFirst /\ Len(toReplace) > 0 THEN <<toReplace[1]>> ELSE toReplace

\* part_001 lines 244-257: the new text
replacedText(txt, opts, toReplace, replacement) ==
    replaceEach("part_001", txt, sortedMatches(substituted(opts, toReplace)),
                replacement, opts.smartCase)

\* FindReplace.tsx line 190: replacementsToMake
replacementsToMake(ms, replaceAll, current) ==
    IF replaceAll THEN ms ELSE <<ms[current + 1]>>

\* FindReplace.tsx lines 188-202: the new text
replacedTextTsx(txt, opts, toMake, replacement) ==
    replaceEach("FindReplace.tsx", txt, sortedMatches(toMake), replacement, opts.smartCase)

HistoryCapacity == 20       \* part_001: [operation, ...prev.slice(0, 19)]
HistoryCapacityTsx == 10    \* FindReplace.tsx: [historyEntry, ...prev.slice(0, 9)]

\* Array.prototype.slice(0, end), end possibly negative
sliceTo(arr, end) ==
    LET e == IF end < 0 THEN Max(Len(arr) + end, 0) ELSE Min(end, Len(arr))
    IN  SubSeq(arr, 1, e)

\* part_001 line 268 / FindReplace.tsx line 220
historyAfterReplace(component, prev, operation) ==
    <<operation>> \o sliceTo(prev, (IF component = "part_001" THEN HistoryCapacity
                                    ELSE HistoryCapacityTsx) - 1)

\* part_001 line 304
historyAfterBatch(prev, operations) ==
    operations \o sliceTo(prev, HistoryCapacity - Len(operations))

----------------------------------------------------------------------------
(* performBatchReplace of both components *)

\* every match of a global regex, left to right (String.prototype.match and
\* String.prototype.replace step one position past an empty match)
RECURSIVE matchAll(_, _, _)
matchAll(re, s, from) ==
    LET m == RegExpExec(re, s, from)
    IN  IF m.index = -1 THEN <<>>
        ELSE <<m>> \o matchAll(re, s, IF m.end = m.index THEN m.end + 1 ELSE m.end)

\* String.prototype.replace(regex, replacement) for a global regex and a
\* replacement without `$`
RECURSIVE replaceFrom(_, _, _, _)
replaceFrom(s, ms, replacement, from) ==
    IF ms = <<>> THEN substring(s, from, Len(s))
    ELSE substring(s, from, Head(ms).index) \o replacement
             \o replaceFrom(s, Tail(ms), replacement, Head(ms).end)

stringReplace(s, re, replacement) == replaceFrom(s, matchAll(re, s, 0), replacement, 0)

\* String.prototype.split('->')
RECURSIVE splitArrow(_)
splitArrow(s) ==
    LET at == indexOf(s, <<"-", ">">>, 0)
    IN  IF at = -1 THEN <<s>>
        ELSE <<SubSeq(s, 1, at)>> \o splitArrow(SubSeq(s, at + 3, Len(s)))

\* part_001 lines 280-287: the rules of the textarea, in order
RECURSIVE parseBatch(_)
parseBatch(lines) ==
    IF lines = <<>> THEN <<>>
    ELSE LET parts == splitArrow(Head(lines))
         IN  (IF /\ trim(Head(lines)) # <<>>
                 /\ Len(parts) = 2
                 /\ trim(parts[1]) # <<>>
              THEN <<[find |-> trim(parts[1]), replace |-> trim(parts[2])]>>
              ELSE <<>>)
             \o parseBatch(Tail(lines))

\* part_001 lines 282-302: the loop over the rules; acc is the text so far
\* and the operations pushed.  result.match(pattern) is null when nothing
\* matches, and result.replace then returns result itself
RECURSIVE applyBatch(_, _, _)
applyBatch(rules, acc, seq) ==
    IF rules = <<>> THEN acc
    ELSE LET pattern == RegExpNew(escapeRegExp(Head(rules).find), FALSE)
             ms == matchAll(pattern, acc.result, 0)
             pushed == Append(acc.operations,
                           [seq |-> seq + 1, find |-> Head(rules).find,
                            replace |-> Head(rules).replace, matchCount |-> Len(ms)])
         IN  IF ms = <<>>
             THEN applyBatch(Tail(rules), [acc EXCEPT !.operations = pushed], seq + 1)
             ELSE applyBatch(Tail(rules),
                      [result |-> replaceFrom(acc.result, ms, Head(rules).replace, 0),
                       operations |-> pushed],
                      seq + 1)

\* every rule of the list, the disabled and the empty ones too
everyRule(batch) == batch

\* the rules applied, last rule first
RECURSIVE enabledRulesReversed(_)
enabledRulesReversed(batch) ==
    IF batch = <<>> THEN <<>>
    ELSE enabledRulesReversed(Tail(batch))
             \o (IF Head(batch).enabled /\ Head(batch).find # <<>>
                 THEN <<Head(batch)>> ELSE <<>>)

\* FindReplace.tsx line 233: the rules applied
RECURSIVE enabledRules(_)
enabledRules(batch) ==
    IF batch = <<>> THEN <<>>
    ELSE (IF Head(batch).enabled /\ Head(batch).find # <<>> THEN <<Head(batch)>> ELSE <<>>)
             \o enabledRules(Tail(batch))

\* FindReplace.tsx lines 234-244: the forEach; a pattern that does not
\* compile throws out of it
RECURSIVE applyBatchTsx(_, _, _)
applyBatchTsx(rules, opts, acc) ==
    IF rules = <<>> \/ acc.threw THEN acc
    ELSE LET regex == RegExpNew(IF opts.wholeWord
                                THEN <<BS, "b">> \o Head(rules).find \o <<BS, "b">>
                                ELSE Head(rules).find,
                                ~opts.caseSensitive)
             n == Len(matchAll(regex, acc.newText, 0))
         IN  IF ~regex.ok THEN [acc EXCEPT !.threw = TRUE]
             ELSE applyBatchTsx(Tail(rules), opts,
                      [newText |-> IF n > 0
                                   THEN stringReplace(acc.newText, regex, Head(rules).replace)
                                   ELSE acc.newText,
                       totalReplacements |-> acc.totalReplacements + n,
                       threw |-> FALSE])

----------------------------------------------------------------------------
(* The handlers of a find/replace session.  Each action is one handler     *)
(* together with the effect React runs after it (the re-scan of lines      *)
(* 107-114 of part_001, 300-302 of FindReplace.tsx).                       *)

MaxBatchRules == 2      \* longest rule list built in FindReplace.tsx

pageVars == <<impl, selection, layout, highlighted, scan, pc, ret>>
otherVars == <<impl, selection, layout, highlighted, scan, pc, ret, savedPatterns>>

\* the re-scan effect: txt, ft and opts are the values after the handler,
\* baseMatches and baseIndex what the handler itself has set
RescanResult(st, baseMatches, baseIndex) ==
    /\ hung' = (st.status = "hang")
    /\ matches' = IF st.status = "hang" THEN baseMatches ELSE matchesAfter(st)
    /\ currentMatchIndex' = IF st.status = "hang" THEN baseIndex
                            ELSE currentMatchIndexAfter(impl, st, baseIndex)
    /\ errors' = st.errors

Rescan(txt, ft, opts, baseMatches, baseIndex) ==
    RescanResult(findMatches(impl, txt, ft, opts), baseMatches, baseIndex)

\* onChange of the find input
SetFindText(v) ==
    /\ ~hung
    /\ v # findText
    /\ findText' = v
    /\ Rescan(text, v, options, matches, currentMatchIndex)
    /\ call' = [fn |-> "setFindText"]
    /\ UNCHANGED <<text, replaceText, options, history, batchReplacements,
                   isInteractiveMode, selectedMatches, appended, budget, uncaught>>
    /\ UNCHANGED otherVars

\* onChange of the replace input
SetReplaceText(v) ==
    /\ ~hung
    /\ v # replaceText
    /\ replaceText' = v
    /\ call' = [fn |-> "setReplaceText"]
    /\ UNCHANGED <<text, findText, options, matches, currentMatchIndex, history,
                   batchReplacements, isInteractiveMode, selectedMatches, appended,
                   budget, errors, uncaught, hung>>
    /\ UNCHANGED otherVars

\* onChange of an option checkbox: setOptions(prev => ({...prev, [o]: checked}))
ToggleOption(o) ==
    /\ ~hung
    /\ options' = [options EXCEPT ![o] = ~@]
    /\ Rescan(text, findText, options', matches, currentMatchIndex)
    /\ call' = [fn |-> "setOptions"]
    /\ UNCHANGED <<text, findText, replaceText, history, batchReplacements,
                   isInteractiveMode, selectedMatches, appended, budget, uncaught>>
    /\ UNCHANGED otherVars

\* part_001 line 403: the interactive-mode button
ToggleInteractiveMode ==
    /\ impl = "part_001"
    /\ ~hung
    /\ isInteractiveMode' = ~isInteractiveMode
    /\ call' = [fn |-> "setIsInteractiveMode"]
    /\ UNCHANGED <<text, findText, replaceText, options, matches, currentMatchIndex,
                   history, batchReplacements, selectedMatches, appended, budget,
                   errors, uncaught, hung>>
    /\ UNCHANGED otherVars

\* part_001 lines 332-342, from the checkbox of a listed match (lines 608-619)
ToggleMatchSelection(index) ==
    /\ impl = "part_001"
    /\ ~hung
    /\ isInteractiveMode
    /\ index \in 0..(Len(matches) - 1)
    /\ selectedMatches' = IF index \in selectedMatches
                          THEN selectedMatches \ {index}
                          ELSE selectedMatches \cup {index}
    /\ call' = [fn |-> "toggleMatchSelection"]
    /\ UNCHANGED <<text, findText, replaceText, options, matches, currentMatchIndex,
                   history, batchReplacements, isInteractiveMode, appended, budget,
                   errors, uncaught, hung>>
    /\ UNCHANGED otherVars

\* part_001 lines 235-272, from the Replace button (enabled as on line 653)
PerformReplace ==
    /\ impl = "part_001"
    /\ ~hung
    /\ budget > 0
    /\ findText # <<>> /\ matches # <<>>
    /\ budget' = budget - 1
    /\ LET toReplace == matchesToReplace(matches, isInteractiveMode, selectedMatches)
           result == replacedText(text, options, toReplace, replaceText)
       IN  IF toReplace = <<>>
           THEN /\ call' = [fn |-> "performReplace", applied |-> FALSE, before |-> text,
                            historyBefore |-> history]
                /\ UNCHANGED <<text, history, appended, selectedMatches, matches,
                               currentMatchIndex, errors, hung>>
           ELSE /\ history' = historyAfterReplace(impl, history,
                                  [seq |-> appended + 1, find |-> findText,
                                   replace |-> replaceText, matchCount |-> Len(toReplace)])
                /\ appended' = appended + 1
                /\ text' = result
                /\ selectedMatches' = {}
                /\ IF result # text
                   THEN Rescan(result, findText, options, matches, currentMatchIndex)
                   ELSE UNCHANGED <<matches, currentMatchIndex, errors, hung>>
                /\ call' = [fn |-> "performReplace", applied |-> TRUE, before |-> text,
                            historyBefore |-> history,
                            replaced |-> substituted(options, toReplace),
                            replacement |-> replaceText, smart |-> options.smartCase]
    /\ UNCHANGED <<findText, replaceText, options, batchReplacements,
                   isInteractiveMode, uncaught>>
    /\ UNCHANGED otherVars

\* FindReplace.tsx lines 185-225, from Replace (false) or Replace All (true),
\* both enabled while there are matches
PerformReplaceTsx(replaceAll) ==
    /\ impl = "FindReplace.tsx"
    /\ ~hung
    /\ budget > 0
    /\ matches # <<>>
    /\ budget' = budget - 1
    /\ IF ~replaceAll /\ currentMatchIndex \notin 0..(Len(matches) - 1)
       THEN \* matches[currentMatchIndex] is undefined: match.start throws
            /\ uncaught' = TRUE
            /\ call' = [fn |-> "performReplace", applied |-> FALSE, before |-> text,
                        historyBefore |-> history]
            /\ UNCHANGED <<text, history, appended, matches, currentMatchIndex,
                           errors, hung>>
       ELSE LET toMake == replacementsToMake(matches, replaceAll, currentMatchIndex)
                newText == replacedTextTsx(text, options, toMake, replaceText)
            IN  /\ history' = historyAfterReplace(impl, history,
                                  [seq |-> appended + 1, find |-> findText,
                                   replace |-> replaceText, matchCount |-> Len(matches)])
                /\ appended' = appended + 1
                /\ text' = newText
                /\ IF newText # text
                   THEN Rescan(newText, findText, options, <<>>, -1)
                   ELSE /\ matches' = <<>>
                        /\ currentMatchIndex' = -1
                        /\ UNCHANGED <<errors, hung>>
                /\ call' = [fn |-> "performReplace", applied |-> TRUE, before |-> text,
                            historyBefore |-> history, replaced |-> toMake,
                            replacement |-> replaceText, smart |-> options.smartCase,
                            replaceAll |-> replaceAll]
                /\ UNCHANGED uncaught
    /\ UNCHANGED <<findText, replaceText, options, batchReplacements,
                   isInteractiveMode, selectedMatches>>
    /\ UNCHANGED otherVars

\* part_001 line 593: onChange of the batch textarea
SetBatchReplacements(v) ==
    /\ impl = "part_001"
    /\ ~hung
    /\ v # batchReplacements
    /\ batchReplacements' = v
    /\ call' = [fn |-> "setBatchReplacements"]
    /\ UNCHANGED <<text, findText, replaceText, options, matches, currentMatchIndex,
                   history, isInteractiveMode, selectedMatches, appended, budget,
                   errors, uncaught, hung>>
    /\ UNCHANGED otherVars

\* part_001 lines 274-307, from the batch button (enabled as on line 600)
PerformBatchReplace ==
    /\ impl = "part_001"
    /\ ~hung
    /\ budget > 0
    /\ trim(batchReplacements) # <<>>
    /\ budget' = budget - 1
    /\ LET rules == parseBatch(splitLines(batchReplacements))
           done == applyBatch(rules, [result |-> text, operations |-> <<>>], appended)
       IN  /\ history' = historyAfterBatch(history, done.operations)
           /\ appended' = appended + Len(done.operations)
           /\ text' = done.result
           /\ batchReplacements' = <<>>
           /\ IF done.result # text
              THEN Rescan(done.result, findText, options, matches, currentMatchIndex)
              ELSE UNCHANGED <<matches, currentMatchIndex, errors, hung>>
           /\ call' = [fn |-> "performBatchReplace", applied |-> TRUE, before |-> text,
                       historyBefore |-> history, rules |-> rules,
                       batch |-> batchReplacements]
    /\ UNCHANGED <<findText, replaceText, options, isInteractiveMode, selectedMatches,
                   uncaught>>
    /\ UNCHANGED otherVars

\* FindReplace.tsx lines 503-537: onChange of a rule's checkbox or inputs
\* (the rule object is changed in place and the array copied)
SetBatchRuleTsx(index, rule) ==
    /\ impl = "FindReplace.tsx"
    /\ ~hung
    /\ index \in 1..Len(batchReplacements)
    /\ batchReplacements[index] # rule
    /\ \/ /\ rule.replace = batchReplacements[index].replace
          /\ rule.enabled = batchReplacements[index].enabled
       \/ /\ rule.find = batchReplacements[index].find
          /\ rule.enabled = batchReplacements[index].enabled
       \/ /\ rule.find = batchReplacements[index].find
          /\ rule.replace = batchReplacements[index].replace
    /\ batchReplacements' = [batchReplacements EXCEPT ![index] = rule]
    /\ call' = [fn |-> "setBatchReplacements"]
    /\ UNCHANGED <<text, findText, replaceText, options, matches, currentMatchIndex,
                   history, isInteractiveMode, selectedMatches, appended, budget,
                   errors, uncaught, hung>>
    /\ savedPatterns' =
          IF savedPatterns.current[index] = 0 THEN savedPatterns
          ELSE [savedPatterns EXCEPT !.store[savedPatterns.current[index]] = rule]
    /\ UNCHANGED pageVars

\* FindReplace.tsx line 549: "+ Add replacement"
AddBatchRuleTsx ==
    /\ impl = "FindReplace.tsx"
    /\ ~hung
    /\ Len(batchReplacements) < MaxBatchRules
    /\ batchReplacements' = Append(batchReplacements,
                                   [find |-> <<>>, replace |-> <<>>, enabled |-> TRUE])
    /\ call' = [fn |-> "setBatchReplacements"]
    /\ UNCHANGED <<text, findText, replaceText, options, matches, currentMatchIndex,
                   history, isInteractiveMode, selectedMatches, appended, budget,
                   errors, uncaught, hung>>
    /\ savedPatterns' = [savedPatterns EXCEPT !.current = Append(@, 0)]
    /\ UNCHANGED pageVars

\* FindReplace.tsx lines 539-541: a rule's remove button
RemoveBatchRuleTsx(index) ==
    /\ impl = "FindReplace.tsx"
    /\ ~hung
    /\ index \in 1..Len(batchReplacements)
    /\ batchReplacements' = [i \in 1..(Len(batchReplacements) - 1) |->
                                IF i < index THEN batchReplacements[i]
                                ELSE batchReplacements[i + 1]]
    /\ call' = [fn |-> "setBatchReplacements"]
    /\ UNCHANGED <<text, findText, replaceText, options, matches, currentMatchIndex,
                   history, isInteractiveMode, selectedMatches, appended, budget,
                   errors, uncaught, hung>>
    /\ savedPatterns' =
          [savedPatterns EXCEPT !.current =
              [i \in 1..(Len(batchReplacements) - 1) |->
                  IF i < index THEN @[i] ELSE @[i + 1]]]
    /\ UNCHANGED pageVars

\* FindReplace.tsx lines 228-253, from Apply Batch (never disabled)
PerformBatchReplaceTsx ==
    /\ impl = "FindReplace.tsx"
    /\ ~hung
    /\ budget > 0
    /\ budget' = budget - 1
    /\ LET rules == enabledRules(batchReplacements)
           done == applyBatchTsx(rules, options,
                       [newText |-> text, totalReplacements |-> 0, threw |-> FALSE])
       IN  IF done.threw
           THEN /\ uncaught' = TRUE
                /\ call' = [fn |-> "performBatchReplace", applied |-> FALSE,
                            before |-> text, historyBefore |-> history, rules |-> rules]
                /\ UNCHANGED <<text, matches, currentMatchIndex, errors, hung>>
           ELSE /\ text' = done.newText
                /\ IF done.newText # text
                   THEN Rescan(done.newText, findText, options, matches, currentMatchIndex)
                   ELSE UNCHANGED <<matches, currentMatchIndex, errors, hung>>
                /\ call' = [fn |-> "performBatchReplace", applied |-> TRUE,
                            before |-> text, historyBefore |-> history, rules |-> rules,
                            batch |-> batchReplacements,
                            totalReplacements |-> done.totalReplacements]
                /\ UNCHANGED uncaught
    /\ UNCHANGED <<findText, replaceText, options, history, batchReplacements,
                   isInteractiveMode, selectedMatches, appended>>
    /\ UNCHANGED otherVars

----------------------------------------------------------------------------
(* Specification of a find/replace session: every handler, short inputs *)

MaxReplaces == 2        \* replace requests followed in a session

SessionText == <<"a", "X", "a">>
SessionFinds == {<<>>, <<"a">>, <<"(">>}
SessionReplaces == {<<>>, <<"y">>}
SessionToggles == {"useRegex"}
SessionBatches == {<<>>,
                   <<"(", "-", ">", "y">>,
                   <<"X", "-", ">", "a", NL, "a", "-", ">", "X">>}
SessionRules == [find : {<<"a">>, <<"(">>}, replace : {<<>>}, enabled : BOOLEAN]

InitSession(component, txt, n) ==
    /\ impl = component
    /\ text = txt
    /\ Unselected
    /\ Mounted(component)
    /\ budget = n
    /\ pc = "idle"
    /\ call = NoCall
    /\ ret = <<>>
    /\ Quiet

Init == \E component \in Components : InitSession(component, SessionText, MaxReplaces)

Next ==
    \/ \E v \in SessionFinds : SetFindText(v)
    \/ \E v \in SessionReplaces : SetReplaceText(v)
    \/ \E o \in SessionToggles : ToggleOption(o)
    \/ ToggleInteractiveMode
    \/ \E i \in 0..1 : ToggleMatchSelection(i)
    \/ PerformReplace
    \/ \E all \in BOOLEAN : PerformReplaceTsx(all)
    \/ \E v \in SessionBatches : SetBatchReplacements(v)
    \/ PerformBatchReplace
    \/ \E i \in 1..MaxBatchRules, r \in SessionRules : SetBatchRuleTsx(i, r)
    \/ AddBatchRuleTsx
    \/ \E i \in 1..MaxBatchRules : RemoveBatchRuleTsx(i)
    \/ PerformBatchReplaceTsx

Spec == Init /\ [][Next]_vars

----------------------------------------------------------------------------
(* Specification of one replace request: any short text, find and replace  *)
(* text, the matches being those the scan of that text has left            *)

MaxReplaceLen == 3      \* longest text drawn besides the five-character one
MaxClick == 2           \* listed matches the user clicks among: the first two

ReplaceTexts == StringsUpTo({"a", "X", NL}, MaxReplaceLen) \cup {<<"a", "X", "a", "X", "a">>}
ReplaceFinds == {<<"a">>, <<"X">>, <<"a", "a">>, <<"a", "*">>}
ReplaceWiths == {<<>>, <<"Y">>, <<"a", "a">>}

ReplaceOptions(component) ==
    {[InitialOptions(component) EXCEPT !.caseSensitive = cs, !.useRegex = re,
                                       !.replaceFirst = rf, !.smartCase = sc] :
        cs \in BOOLEAN, re \in BOOLEAN, sc \in BOOLEAN, rf \in BOOLEAN}

\* the state the scan effect has left for st
Scanned(st) ==
    /\ st.status # "hang"
    /\ matches = matchesAfter(st)
    /\ currentMatchIndex = currentMatchIndexAfter(impl, st,
                               IF impl = "part_001" THEN -1 ELSE 0)
    /\ errors = st.errors

InitReplace ==
    /\ impl \in Components
    /\ text \in ReplaceTexts
    /\ Unselected
    /\ findText \in ReplaceFinds
    /\ replaceText \in ReplaceWiths
    /\ options \in ReplaceOptions(impl)
    /\ Scanned(findMatches(impl, text, findText, options))
    /\ history = <<>>
    /\ batchReplacements = InitialBatch(impl)
    /\ savedPatterns = NoPatterns(impl, batchReplacements)
    /\ isInteractiveMode = FALSE
    /\ selectedMatches = {}
    /\ appended = 0
    /\ budget = 1
    /\ pc = "idle"
    /\ call = NoCall
    /\ ret = <<>>
    /\ scan = NoScan
    /\ uncaught = FALSE
    /\ hung = FALSE

\* FindReplace.tsx line 608: a click on a listed match
SetCurrentMatchIndexTsx(index) ==
    /\ impl = "FindReplace.tsx"
    /\ ~hung
    /\ index \in 0..(Len(matches) - 1)
    /\ index # currentMatchIndex
    /\ currentMatchIndex' = index
    /\ call' = [fn |-> "setCurrentMatchIndex"]
    /\ UNCHANGED <<text, findText, replaceText, options, matches, history,
                   batchReplacements, isInteractiveMode, selectedMatches, appended,
                   budget, errors, uncaught, hung>>
    /\ UNCHANGED otherVars

NextReplace ==
    \/ ToggleInteractiveMode
    \/ \E i \in 0..(MaxClick - 1) : ToggleMatchSelection(i)
    \/ \E i \in 0..(MaxClick - 1) : SetCurrentMatchIndexTsx(i)
    \/ PerformReplace
    \/ \E all \in BOOLEAN : PerformReplaceTsx(all)

SpecReplace == InitReplace /\ [][NextReplace]_vars

\* spans strictly ascending and not overlapping
NonOverlapping(ms) ==
    \A i \in 1..(Len(ms) - 1) :
        /\ startOffset(ms[i]) < startOffset(ms[i + 1])
        /\ endOffset(ms[i]) <= startOffset(ms[i + 1])

\* T with each span of ms replaced by R, built from the left: the characters
\* between the spans unchanged and in order
RECURSIVE SpansReplaced(_, _, _, _)
SpansReplaced(T, ms, R, from) ==
    IF ms = <<>> THEN SubSeq(T, from + 1, Len(T))
    ELSE SubSeq(T, from + 1, startOffset(Head(ms))) \o R
             \o SpansReplaced(T, Tail(ms), R, endOffset(Head(ms)))

\* C1: with smart-case off, a replace over non-overlapping matches leaves the
\* text with each matched span replaced by the replacement and every other
\* character unchanged and in order, whatever the replacement's length.
C1_ReplaceSpans ==
    (call.fn = "performReplace" /\ call.applied /\ ~call.smart
        /\ NonOverlapping(call.replaced))
    => text = SpansReplaced(call.before, call.replaced, call.replacement, 0)

\* "aXaXa" with X replaced by Y has become "aYaYa"
C1_Witness ==
    /\ call.fn = "performReplace" /\ call.applied /\ ~call.smart
    /\ Len(call.replaced) = 2
    /\ call.before = <<"a", "X", "a", "X", "a">>
    /\ call.replacement = <<"Y">>
    /\ text = <<"a", "Y", "a", "Y", "a">>

----------------------------------------------------------------------------
(* Specification of the case-preserving substitution: any matched text of  *)
(* letters, any replacement, the option on or off                          *)

MaxOriginalLen == 3     \* longest matched text
MaxReplacementLen == 2  \* longest replacement

Originals == StringsUpTo({"a", "A", "x"}, MaxOriginalLen) \ {<<>>}
Replacements == StringsUpTo({"y", "Y"}, MaxReplacementLen)

\* text holds the matched text, replaceText the replacement
InitCase ==
    /\ impl \in Components
    /\ text \in Originals
    /\ Unselected
    /\ findText = text
    /\ replaceText \in Replacements
    /\ options \in {[InitialOptions(impl) EXCEPT !.smartCase = sc] : sc \in BOOLEAN}
    /\ matches = <<>>
    /\ currentMatchIndex = -1
    /\ history = <<>>
    /\ batchReplacements = InitialBatch(impl)
    /\ savedPatterns = NoPatterns(impl, batchReplacements)
    /\ isInteractiveMode = FALSE
    /\ selectedMatches = {}
    /\ appended = 0
    /\ budget = 0
    /\ pc = "idle"
    /\ call = NoCall
    /\ ret = <<>>
    /\ Quiet

\* the replace loop's computation of the text put in place of one match
CallSubstitute ==
    /\ pc = "idle"
    /\ call' = [fn |-> "substituteFor"]
    /\ ret' = substituteFor(impl, options.smartCase, text, replaceText)
    /\ pc' = "returned"
    /\ UNCHANGED <<impl, text, selection, layout, highlighted, scan>>
    /\ UNCHANGED sessionVars
    /\ UNCHANGED faultVars

NextCase == CallSubstitute

SpecCase == InitCase /\ [][NextCase]_vars

AllUpper(o) == \A i \in 1..Len(o) : o[i] \in {"A", "X", "Y"}
AllLower(o) == \A i \in 1..Len(o) : o[i] \in {"a", "x", "y"}
Capitalized(o) == o[1] \in {"A", "X", "Y"} /\ Len(o) > 1 /\ AllLower(Tail(o))

\* C10: with the option on the substituted text is upper(R) for an all
\* upper-case original, lower(R) for an all lower-case one, R capitalized for
\* a Capitalized one and R verbatim for any other mixed-case original; with
\* the option off it is R verbatim.
C10_SmartCase ==
    pc = "returned" /\ call.fn = "substituteFor" =>
        ret = IF ~options.smartCase THEN replaceText
              ELSE IF AllUpper(text) THEN toUpperCase(replaceText)
              ELSE IF AllLower(text) THEN toLowerCase(replaceText)
              ELSE IF Capitalized(text) THEN capitalize(replaceText)
              ELSE replaceText

----------------------------------------------------------------------------
(* Properties of the find/replace session (specification Spec) *)

\* the pattern of a batch rule as FindReplace.tsx line 235 compiles it
batchPatternTsx(rule, opts) ==
    RegExpNew(IF opts.wholeWord THEN <<BS, "b">> \o rule.find \o <<BS, "b">>
              ELSE rule.find,
              ~opts.caseSensitive)

\* log entries the latest handler has added
appendedByCall ==
    {i \in 1..Len(history) :
        \A j \in 1..Len(call.historyBefore) : history[i] # call.historyBefore[j]}

\* C5: a find-expression or batch rule pattern that does not compile raises
\* nothing out of the session: the match list is empty, an error is reported
\* and the text is as it was.
C5_InvalidRegexContained ==
    /\ (findText # <<>> /\ options.useRegex
            /\ ~RegExpNew(findText, ~options.caseSensitive).ok)
       => (matches = <<>> /\ errors > 0)
    /\ (call.fn = "performBatchReplace" /\ impl = "FindReplace.tsx" /\ options.useRegex
            /\ \E i \in 1..Len(call.rules) : ~batchPatternTsx(call.rules[i], options).ok)
       => (~uncaught /\ text = call.before)

\* C7: a single replace adds exactly one entry to the log, a batch replace
\* one entry per rule applied, and a replace whose working match set is empty
\* adds nothing and leaves the text as it was.
C7_OneEntryPerReplace ==
    /\ (call.fn = "performReplace" /\ call.applied)
       => Cardinality(appendedByCall) = 1
    /\ (call.fn = "performBatchReplace" /\ call.applied)
       => Cardinality(appendedByCall) = Len(call.rules)
    /\ (call.fn = "performReplace" /\ ~call.applied)
       => (Cardinality(appendedByCall) = 0 /\ text = call.before)

----------------------------------------------------------------------------
(* Specification of the operation log: many replace requests on a text     *)
(* they leave as it is                                                     *)

MaxLogRequests == 12    \* replace requests followed

LogText == <<"a">>

\* FindReplace.tsx empties the match list after a replace that leaves the
\* text as it was, and the find text is retyped to have matches again;
\* part_001 keeps its Replace button enabled
LogFinds == {<<"a">>, <<"A">>}

RetypeFindText(v) ==
    /\ impl = "FindReplace.tsx"
    /\ SetFindText(v)

\* n lines "a->a" of the batch textarea
RECURSIVE BatchOf(_)
BatchOf(n) ==
    IF n = 0 THEN <<>>
    ELSE <<"a", "-", ">", "a">> \o (IF n = 1 THEN <<>> ELSE <<NL>> \o BatchOf(n - 1))

LogBatches == {BatchOf(1), BatchOf(HistoryCapacity + 1)}

InitLog ==
    /\ impl \in Components
    /\ text = LogText
    /\ Unselected
    /\ findText = <<"a">>
    /\ replaceText = <<"a">>
    /\ options = InitialOptions(impl)
    /\ Scanned(findMatches(impl, text, findText, options))
    /\ history = <<>>
    /\ batchReplacements = InitialBatch(impl)
    /\ savedPatterns = NoPatterns(impl, batchReplacements)
    /\ isInteractiveMode = FALSE
    /\ selectedMatches = {}
    /\ appended = 0
    /\ budget = MaxLogRequests
    /\ pc = "idle"
    /\ call = NoCall
    /\ ret = <<>>
    /\ scan = NoScan
    /\ uncaught = FALSE
    /\ hung = FALSE

NextLog ==
    \/ \E v \in LogFinds : RetypeFindText(v)
    \/ PerformReplace
    \/ \E all \in BOOLEAN : PerformReplaceTsx(all)
    \/ \E v \in LogBatches : SetBatchReplacements(v)
    \/ PerformBatchReplace

SpecLog == InitLog /\ [][NextLog]_vars

\* C6: the log holds at most 20 entries, and they are the 20 appended last.
C6_LogBounded ==
    /\ Len(history) = Min(appended, 20)
    /\ {history[i].seq : i \in 1..Len(history)} = (appended - Min(appended, 20) + 1)..appended

----------------------------------------------------------------------------
(* Specification of one batch replace: any short text, any short list of   *)
(* rules typed into the batch editor                                       *)

MaxBatchTextLen == 2    \* longest text a batch is applied to
MaxBatchLines == 2      \* most rules / textarea lines of a batch

BatchTexts == StringsUpTo({"a", "b"}, MaxBatchTextLen) \ {<<>>}

\* lines of part_001's textarea: two rules, a rule without a find text, a
\* line without an arrow
BatchLines == {<<"a", "-", ">", "b">>, <<"b", "-", ">", "c">>,
               <<"-", ">", "c">>, <<"a", "b">>}

\* rules of FindReplace.tsx's editor
BatchRules == [find : {<<>>, <<"a">>, <<"b">>}, replace : {<<"b">>, <<"c">>},
               enabled : BOOLEAN]

SeqsUpTo(S, n) == UNION {[1..k -> S] : k \in 1..n}

BatchInputs(component) ==
    IF component = "part_001"
    THEN {joinLines(ls) : ls \in SeqsUpTo(BatchLines, MaxBatchLines)}
    ELSE SeqsUpTo(BatchRules, MaxBatchLines)

InitBatch ==
    /\ impl \in Components
    /\ text \in BatchTexts
    /\ Unselected
    /\ findText = <<>>
    /\ replaceText = <<>>
    /\ options = InitialOptions(impl)
    /\ matches = <<>>
    /\ currentMatchIndex = (IF impl = "part_001" THEN -1 ELSE 0)
    /\ history = <<>>
    /\ batchReplacements \in BatchInputs(impl)
    /\ savedPatterns = NoPatterns(impl, batchReplacements)
    /\ isInteractiveMode = FALSE
    /\ selectedMatches = {}
    /\ appended = 0
    /\ budget = 1
    /\ pc = "idle"
    /\ call = NoCall
    /\ ret = <<>>
    /\ Quiet

NextBatch == PerformBatchReplace \/ PerformBatchReplaceTsx

SpecBatch == InitBatch /\ [][NextBatch]_vars

\* every occurrence of f in s replaced by r, scanning from the left
RECURSIVE LiteralReplaced(_, _, _)
LiteralReplaced(s, f, r) ==
    IF Len(s) < Len(f) THEN s
    ELSE IF SubSeq(s, 1, Len(f)) = f
         THEN r \o LiteralReplaced(SubSeq(s, Len(f) + 1, Len(s)), f, r)
         ELSE <<Head(s)>> \o LiteralReplaced(Tail(s), f, r)

\* the number of occurrences replaced
RECURSIVE LiteralCount(_, _)
LiteralCount(s, f) ==
    IF Len(s) < Len(f) THEN 0
    ELSE IF SubSeq(s, 1, Len(f)) = f
         THEN 1 + LiteralCount(SubSeq(s, Len(f) + 1, Len(s)), f)
         ELSE LiteralCount(Tail(s), f)

\* the rules one after the other, each on the text the one before has left
RECURSIVE Sequentially(_, _)
Sequentially(rules, T) ==
    IF rules = <<>> THEN T
    ELSE Sequentially(Tail(rules), LiteralReplaced(T, Head(rules).find, Head(rules).replace))

\* the occurrences replaced by the rules, summed
RECURSIVE SequentialCount(_, _)
SequentialCount(rules, T) ==
    IF rules = <<>> THEN 0
    ELSE LiteralCount(T, Head(rules).find)
             + SequentialCount(Tail(rules),
                   LiteralReplaced(T, Head(rules).find, Head(rules).replace))

\* the rules as typed: the lines of part_001's textarea that have a find and
\* a replace side (there is no checkbox: all enabled), the rule list of
\* FindReplace.tsx
RECURSIVE TypedLines(_)
TypedLines(lines) ==
    IF lines = <<>> THEN <<>>
    ELSE (IF Len(splitArrow(Head(lines))) = 2
          THEN <<[find |-> trim(splitArrow(Head(lines))[1]),
                  replace |-> trim(splitArrow(Head(lines))[2]), enabled |-> TRUE]>>
          ELSE <<>>)
         \o TypedLines(Tail(lines))

TypedRules ==
    IF impl = "part_001" THEN TypedLines(splitLines(call.batch)) ELSE call.batch

NotSkipped(rule) == rule.enabled /\ rule.find # <<>>

\* every rule typed is one the batch applies
AllApplied == \A i \in 1..Len(TypedRules) : NotSkipped(TypedRules[i])

\* C11: a batch replace applies its rules in list order, each to the text the
\* previous rule has produced.
C11_BatchSequential ==
    (call.fn = "performBatchReplace" /\ call.applied /\ AllApplied)
    => text = Sequentially(TypedRules, call.before)

\* rules a->b, b->c applied to "a" have given "c"
C11_Witness ==
    /\ call.fn = "performBatchReplace" /\ call.applied /\ AllApplied
    /\ call.before = <<"a">>
    /\ Len(TypedRules) = 2
    /\ TypedRules[1].find = <<"a">> /\ TypedRules[1].replace = <<"b">>
    /\ TypedRules[2].find = <<"b">> /\ TypedRules[2].replace = <<"c">>
    /\ text = <<"c">>

\* the occurrences the latest batch has counted: totalReplacements of
\* FindReplace.tsx, the matchCount of the operations part_001 has logged
RECURSIVE CountLogged(_)
CountLogged(h) ==
    IF h = <<>> THEN 0
    ELSE (IF \E j \in 1..Len(call.historyBefore) : call.historyBefore[j] = Head(h)
          THEN 0 ELSE Head(h).matchCount)
         + CountLogged(Tail(h))

BatchTotal ==
    IF impl = "part_001" THEN CountLogged(history) ELSE call.totalReplacements

\* C12: a batch replace skips the rules that are disabled or have an empty
\* find field, and its total is the sum of the occurrences the other rules
\* have replaced, each in the text current at its turn.
C12_SkipsAndCounts ==
    (call.fn = "performBatchReplace" /\ call.applied)
    => /\ text = Sequentially(SelectSeq(TypedRules, NotSkipped), call.before)
       /\ BatchTotal = SequentialCount(SelectSeq(TypedRules, NotSkipped), call.before)

\* a disabled or empty rule was in the batch, and another rule has replaced
C12_Witness ==
    /\ call.fn = "performBatchReplace" /\ call.applied
    /\ \E i \in 1..Len(TypedRules) : ~NotSkipped(TypedRules[i])
    /\ \E i \in 1..Len(TypedRules) :
           NotSkipped(TypedRules[i]) /\ TypedRules[i].find = <<"a">>
    /\ BatchTotal = 2
    /\ text # call.before

----------------------------------------------------------------------------
(* The working match set of a replace (specification SpecReplace) *)

\* the matches whose index in the list is selected
RECURSIVE AtSelected(_, _, _)
AtSelected(ms, selected, index) ==
    IF ms = <<>> THEN <<>>
    ELSE (IF index \in selected THEN <<Head(ms)>> ELSE <<>>)
         \o AtSelected(Tail(ms), selected, index + 1)

\* the match with the lowest startOffset
FirstMatch(ms) ==
    CHOOSE m \in {ms[i] : i \in 1..Len(ms)} :
        \A i \in 1..Len(ms) : startOffset(m) <= startOffset(ms[i])

WorkingSet ==
    IF isInteractiveMode THEN AtSelected(matches, selectedMatches, 0)
    ELSE IF options.replaceFirst THEN <<FirstMatch(matches)>>
    ELSE matches

\* a replace of part_001, or a Replace All of FindReplace.tsx, with at most
\* one of interactive mode and replace-first in effect
ReplaceStep ==
    /\ call'.fn = "performReplace" /\ call'.applied
    /\ budget' = budget - 1
    /\ impl = "FindReplace.tsx" => call'.replaceAll
    /\ ~(isInteractiveMode /\ options.replaceFirst)

\* C13: a replace substitutes every match of the scan by default, only the
\* first match when replace-first is set, only the selected matches in
\* interactive mode; the matches outside that set stay as they are.
C13_WorkingSet ==
    [][ReplaceStep =>
          /\ call'.replaced = WorkingSet
          /\ (~options.smartCase /\ NonOverlapping(WorkingSet))
             => text' = SpansReplaced(text, WorkingSet, replaceText, 0)]_vars

----------------------------------------------------------------------------
(* The line range of a scan (specification SpecScan) *)

\* 1 + the number of newlines before the match
LineOf(m) == 1 + Cardinality({i \in 1..startOffset(m) : text[i] = NL})

InLineRange(m) ==
    options.lineRange.start <= LineOf(m) /\ LineOf(m) <= options.lineRange.end

\* the scan of the same text without the line range
ScanOfAllLines == findMatches(impl, text, findText, [options EXCEPT !.lineRange = NoRange])

----------------------------------------------------------------------------
(* Grid mapping: from a pointer event to a cell of the text *)

\* the null of getPositionFromEvent / getPosition
NoPosition == [null |-> TRUE, row |-> 0, col |-> 0]

\* event.clientX - rect.left - paddingLeft + textArea.scrollLeft
contentX(event, lay) == event.clientX - lay.left - lay.paddingLeft + lay.scrollLeft

\* event.clientY - rect.top - paddingTop + textArea.scrollTop
contentY(event, lay) == event.clientY - lay.top - lay.paddingTop + lay.scrollTop

gridIndexUnclamped(offset, size) == offset \div size

\* Math.max(0, Math.floor(offset / size)); \div rounds toward minus infinity
gridIndex(offset, size) == Max(0, offset \div size)

getPositionFromEventUnvalidated(event, lay, txt) ==
    [null |-> FALSE, row |-> gridIndex(contentY(event, lay), lay.lineHeight),
     col |-> gridIndex(contentX(event, lay), lay.charWidth)]

\* app.js
getPositionFromEvent(event, lay, txt) ==
    LET col == gridIndex(contentX(event, lay), lay.charWidth)
        row == gridIndex(contentY(event, lay), lay.lineHeight)
        lines == splitLines(txt)
    IN  IF row >= Len(lines) /\ Len(lines) > 0 THEN NoPosition
        ELSE [null |-> FALSE, row |-> row, col |-> col]

\* part_000; textAreaRef.current is set once the component is mounted
getPosition(event, lay, txt) ==
    LET col == gridIndex(contentX(event, lay), lay.charWidth)
        row == gridIndex(contentY(event, lay), lay.lineHeight)
        lines == splitLines(txt)
    IN  IF row >= Len(lines) /\ Len(lines) > 0 THEN NoPosition
        ELSE [null |-> FALSE, row |-> row, col |-> col]

positionOf(page, event, lay, txt) ==
    IF page = "app.js" THEN getPositionFromEvent(event, lay, txt)
    ELSE getPosition(event, lay, txt)

----------------------------------------------------------------------------
(* Specification of the grid mapping: any geometry, any pointer *)

MaxClient == 6
MaxOffset == 2
MaxScroll == 2
MaxGlyph == 3

GridTexts == {<<>>, <<"a">>, <<"a", NL, "X">>, <<"a", NL, NL>>}

Layouts ==
    {[left |-> l, top |-> t, paddingLeft |-> p, paddingTop |-> p,
      scrollLeft |-> sl, scrollTop |-> st, charWidth |-> cw, lineHeight |-> lh] :
        l \in {0, MaxOffset}, t \in {0, MaxOffset}, p \in {0, 1},
        sl \in {0, MaxScroll}, st \in {0, MaxScroll},
        cw \in 1..MaxGlyph, lh \in 1..MaxGlyph}

Pointers == [clientX : 0..MaxClient, clientY : 0..MaxClient]

InitGrid ==
    /\ impl \in Pages
    /\ text \in GridTexts
    /\ selection = NoSelection
    /\ layout \in Layouts
    /\ highlighted = {}
    /\ pc = "idle"
    /\ call = NoCall
    /\ ret = <<>>
    /\ Mounted("part_001")
    /\ budget = 0
    /\ Quiet

\* a mouse handler's call of getPositionFromEvent / getPosition
CallGetPosition ==
    /\ pc = "idle"
    /\ \E event \in Pointers :
          /\ call' = [fn |-> "getPositionFromEvent", event |-> event]
          /\ ret' = positionOf(impl, event, layout, text)
    /\ pc' = "returned"
    /\ UNCHANGED <<impl, text, selection, layout, highlighted, scan>>
    /\ UNCHANGED sessionVars
    /\ UNCHANGED faultVars

NextGrid == CallGetPosition

SpecGrid == InitGrid /\ [][NextGrid]_vars

\* the pointer's offset from the content origin, with the scroll added
PointerOffsetX == call.event.clientX - (layout.left + layout.paddingLeft) + layout.scrollLeft
PointerOffsetY == call.event.clientY - (layout.top + layout.paddingTop) + layout.scrollTop

\* q is the floor of offset / size, or 0 when the offset is negative
ClampedFloor(q, offset, size) ==
    IF offset < 0 THEN q = 0
    ELSE q * size <= offset /\ offset < (q + 1) * size

Mapped == pc = "returned" /\ call.fn = "getPositionFromEvent"

\* C15: with integer metrics the column is max(0, floor((pointerX - originX
\* + scrollX) / charWidth)) and the row max(0, floor((pointerY - originY +
\* scrollY) / lineHeight)): the origin maps to (0, 0), one line height below
\* it to row 1, and a pointer left of or above the origin to column / row 0.
C15_GridMapping ==
    (Mapped /\ ~ret.null)
    => /\ ClampedFloor(ret.col, PointerOffsetX, layout.charWidth)
       /\ ClampedFloor(ret.row, PointerOffsetY, layout.lineHeight)
       /\ (PointerOffsetX = 0 /\ PointerOffsetY = 0) => (ret.row = 0 /\ ret.col = 0)
       /\ PointerOffsetY = layout.lineHeight => ret.row = 1
       /\ PointerOffsetX < 0 => ret.col = 0
       /\ PointerOffsetY < 0 => ret.row = 0

\* a pointer left of the origin and one line height below it, in a scrolled
\* textarea with glyphs more than one pixel high
C15_Witness ==
    /\ Mapped /\ ~ret.null
    /\ PointerOffsetX < 0 /\ PointerOffsetY = layout.lineHeight
    /\ layout.lineHeight > 1 /\ layout.scrollTop > 0
    /\ ret.col = 0 /\ ret.row = 1

----------------------------------------------------------------------------
(* The drag handlers of the selection page *)

\* the number of spans updateOverlay makes for a line: one per character,
\* and a single blank span for an empty line
spanCount(line) == IF line = <<>> THEN 1 ELSE Len(line)

\* the spans highlightColumns gives the class selected-column
highlightColumns(sel, txt) ==
    LET lines == splitLines(txt)
    IN  {<<r, c>> : r \in minRowOf(sel)..maxRowOf(sel), c \in minColOf(sel)..maxColOf(sel)}
        \cap {cell \in (0..(Len(lines) - 1)) \X (0..maxColOf(sel)) :
                 cell[2] < spanCount(lines[cell[1] + 1])}

keepSelection(cells) == cells

\* clearSelection leaves no span of class selected-column
clearSelection(cells) == {}

startAtKeepingEnd(sel, pos) ==
    [sel EXCEPT !.startX = pos.col, !.startY = pos.row, !.active = TRUE]

\* the assignments of handleMouseDown
startAt(sel, pos) ==
    [sel EXCEPT !.startX = pos.col, !.startY = pos.row,
                !.endX = pos.col, !.endY = pos.row, !.active = TRUE]

endAtMovingStart(sel, pos) ==
    [sel EXCEPT !.startX = pos.col, !.startY = pos.row,
                !.endX = pos.col, !.endY = pos.row]

\* the assignments of handleMouseMove and handleMouseUp
endAt(sel, pos) == [sel EXCEPT !.endX = pos.col, !.endY = pos.row]

finishSelectionCollapsing(sel) ==
    [sel EXCEPT !.active = FALSE, !.justFinishedDragging = TRUE,
                !.endX = sel.startX, !.endY = sel.startY]

finishSelection(sel) == [sel EXCEPT !.active = FALSE, !.justFinishedDragging = TRUE]

\* what highlightColumns reads: selectionState as just assigned (app.js), the
\* selection of the render the handler was made in (part_000: setSelection
\* takes effect at the next render)
selectionRead(page, before, after) == IF page = "app.js" THEN after ELSE before

pageFrame == <<impl, text, layout, scan>>

handleMouseDown(event) ==
    LET pos == positionOf(impl, event, layout, text)
    IN  /\ call' = [fn |-> "handleMouseDown", event |-> event, pos |-> pos]
        /\ IF pos.null
           THEN UNCHANGED <<selection, highlighted>>
           ELSE /\ selection' = startAt(selection, pos)
                /\ highlighted' = IF ~event.ctrlKey /\ ~event.metaKey
                                  THEN clearSelection(highlighted)
                                  ELSE highlighted
        /\ UNCHANGED <<pc, ret>>
        /\ UNCHANGED pageFrame
        /\ UNCHANGED sessionVars
        /\ UNCHANGED faultVars

handleMouseMove(event) ==
    LET pos == positionOf(impl, event, layout, text)
    IN  /\ call' = [fn |-> "handleMouseMove", event |-> event, pos |-> pos]
        /\ IF ~selection.active \/ pos.null
           THEN UNCHANGED <<selection, highlighted>>
           ELSE /\ selection' = endAt(selection, pos)
                /\ highlighted' =
                      highlightColumns(selectionRead(impl, selection, selection'), text)
        /\ UNCHANGED <<pc, ret>>
        /\ UNCHANGED pageFrame
        /\ UNCHANGED sessionVars
        /\ UNCHANGED faultVars

handleMouseUp(event) ==
    LET pos == positionOf(impl, event, layout, text)
        moved == IF pos.null THEN selection ELSE endAt(selection, pos)
    IN  /\ call' = [fn |-> "handleMouseUp", event |-> event, pos |-> pos]
        /\ IF ~selection.active
           THEN UNCHANGED <<selection, highlighted>>
           ELSE /\ selection' = finishSelection(moved)
                /\ highlighted' =
                      IF pos.null THEN highlighted
                      ELSE highlightColumns(selectionRead(impl, selection, moved), text)
        /\ UNCHANGED <<pc, ret>>
        /\ UNCHANGED pageFrame
        /\ UNCHANGED sessionVars
        /\ UNCHANGED faultVars

\* app.js only: the mouseup that reaches the window
handleWindowMouseUp ==
    /\ impl = "app.js"
    /\ call' = [fn |-> "handleWindowMouseUp"]
    /\ selection' = IF selection.active THEN finishSelection(selection) ELSE selection
    /\ UNCHANGED <<highlighted, pc, ret>>
    /\ UNCHANGED pageFrame
    /\ UNCHANGED sessionVars
    /\ UNCHANGED faultVars

\* app.js only
handleClick ==
    /\ impl = "app.js"
    /\ call' = [fn |-> "handleClick"]
    /\ IF selection.justFinishedDragging
       THEN /\ selection' = [selection EXCEPT !.justFinishedDragging = FALSE]
            /\ UNCHANGED highlighted
       ELSE /\ highlighted' = IF highlighted # {} THEN clearSelection(highlighted)
                              ELSE highlighted
            /\ UNCHANGED selection
    /\ UNCHANGED <<pc, ret>>
    /\ UNCHANGED pageFrame
    /\ UNCHANGED sessionVars
    /\ UNCHANGED faultVars

----------------------------------------------------------------------------
(* Specification of the drags: pointer events in any order *)

MaxPointerX == 1
MaxPointerY == 2

SelectTexts == {<<"a", "X", NL, "a">>}

\* the geometry is that of the textarea at rest (SpecGrid varies it)
SelectLayouts == {AtRest}

MouseEvents == [clientX : 0..MaxPointerX, clientY : 0..MaxPointerY,
                ctrlKey : BOOLEAN, metaKey : BOOLEAN]

\* the handlers that do not read the modifier keys
PlainEvents == {e \in MouseEvents : ~e.ctrlKey /\ ~e.metaKey}

InitSelect ==
    /\ impl \in Pages
    /\ text \in SelectTexts
    /\ selection = NoSelection
    /\ layout \in SelectLayouts
    /\ highlighted = {}
    /\ pc = "idle"
    /\ call = NoCall
    /\ ret = <<>>
    /\ Mounted("part_001")
    /\ budget = 0
    /\ Quiet

MouseDown == \E event \in MouseEvents : handleMouseDown(event)
MouseMove == \E event \in PlainEvents : handleMouseMove(event)
MouseUp == \E event \in PlainEvents : handleMouseUp(event)

NextSelect ==
    \/ MouseDown
    \/ MouseMove
    \/ MouseUp
    \/ handleWindowMouseUp
    \/ handleClick

SpecSelect == InitSelect /\ [][NextSelect]_vars

----------------------------------------------------------------------------
(* Properties of the drags (specification SpecSelect) *)

StartOf(sel) == <<sel.startY, sel.startX>>
EndOf(sel) == <<sel.endY, sel.endX>>

\* the pointer of the last handler is below the last line of the text
BelowLastLine == PointerOffsetY >= Len(splitLines(text)) * layout.lineHeight

PointerHandlers == {"handleMouseDown", "handleMouseMove"}

CellOf(pos) == <<pos.row, pos.col>>

\* a pointer-down at a position of the text
Begin == call'.fn = "handleMouseDown" /\ ~call'.pos.null

\* C17: a pointer-down at a valid position sets start and end to it and
\* active to true whatever the region was, so that the region is the single
\* cell at that position.
C17_Begin ==
    [][Begin =>
          /\ StartOf(selection') = CellOf(call'.pos)
          /\ EndOf(selection') = CellOf(call'.pos)
          /\ selection'.active
          /\ minRowOf(selection') = maxRowOf(selection')
          /\ minColOf(selection') = maxColOf(selection')]_vars

\* a pointer-down away from the corner, after an earlier drag had finished
\* and with its highlighting still there
C17_Witness ==
    /\ call.fn = "handleMouseDown" /\ ~call.pos.null
    /\ CellOf(call.pos) = <<1, 1>>
    /\ selection.active /\ selection.justFinishedDragging
    /\ StartOf(selection) = <<1, 1>> /\ EndOf(selection) = <<1, 1>>
    /\ highlighted # {}

\* C18: a pointer-move leaves start, end and active as they are when the
\* region is not active; when it is active the move sets the end to the
\* pointer's position and leaves the start and active as they are.
C18_Extend ==
    [][call'.fn = "handleMouseMove" =>
          /\ StartOf(selection') = StartOf(selection)
          /\ selection'.active = selection.active
          /\ ~selection.active => EndOf(selection') = EndOf(selection)
          /\ (selection.active /\ ~call'.pos.null)
             => EndOf(selection') = CellOf(call'.pos)]_vars

\* a move of an active region to a cell off its start
C18_Witness ==
    /\ call.fn = "handleMouseMove" /\ ~call.pos.null
    /\ selection.active
    /\ EndOf(selection) = CellOf(call.pos)
    /\ StartOf(selection) = <<0, 0>> /\ EndOf(selection) = <<1, 1>>

FinishHandlers == {"handleMouseUp", "handleWindowMouseUp"}

\* the end of the region the drag has reached when the button is released
ReleasedAt ==
    IF selection.active /\ call'.fn = "handleMouseUp" /\ ~call'.pos.null
    THEN CellOf(call'.pos)
    ELSE EndOf(selection)

\* C19: finishing a drag sets active to false and keeps the start and the
\* end, so that the bounds and the extracted text are those of the dragged
\* rectangle; finishing again changes nothing.
C19_Finish ==
    [][call'.fn \in FinishHandlers =>
          /\ ~selection'.active
          /\ StartOf(selection') = StartOf(selection)
          /\ EndOf(selection') = ReleasedAt
          /\ minRowOf(selection') = Min(selection.startY, ReleasedAt[1])
          /\ maxRowOf(selection') = Max(selection.startY, ReleasedAt[1])
          /\ minColOf(selection') = Min(selection.startX, ReleasedAt[2])
          /\ maxColOf(selection') = Max(selection.startX, ReleasedAt[2])
          /\ getSelectedText(text, selection')
                = getSelectedText(text, [selection EXCEPT !.endY = ReleasedAt[1],
                                                          !.endX = ReleasedAt[2]])
          /\ ~selection.active => selection' = selection
          /\ selection.active => finishSelection(selection') = selection']_vars

\* a finished drag over more than one cell, finished once more at the window
C19_Witness ==
    /\ call.fn = "handleWindowMouseUp"
    /\ ~selection.active /\ selection.justFinishedDragging
    /\ StartOf(selection) = <<0, 0>> /\ EndOf(selection) = <<1, 1>>
    /\ highlighted # {}

Modified == call'.event.ctrlKey \/ call'.event.metaKey

\* C20: a pointer-down without ctrl or meta removes the highlighting of the
\* earlier region; with ctrl or meta held the highlighting stays.
C20_Modifier ==
    [][Begin =>
          /\ ~Modified => highlighted' = {}
          /\ Modified => highlighted' = highlighted]_vars

\* a pointer-down with ctrl held next to the highlighting of an earlier drag
C20_Witness ==
    /\ call.fn = "handleMouseDown" /\ ~call.pos.null
    /\ call.event.ctrlKey /\ ~call.event.metaKey
    /\ selection.active
    /\ highlighted # {}
    /\ StartOf(selection) \notin highlighted

----------------------------------------------------------------------------
(* The whole selection page: the drags, the edits of the text, the copy *)

\* handleInput (app.js: updateOverlay rebuilds the spans, then
\* clearSelection) / onChange and the effect on text (part_000: updateOverlay);
\* selectionState is not touched
handleInput(value) ==
    /\ text' = value
    /\ highlighted' = {}
    /\ call' = [fn |-> "handleInput"]
    /\ UNCHANGED <<impl, selection, layout, scan, pc, ret>>
    /\ UNCHANGED sessionVars
    /\ UNCHANGED faultVars

copyOutcomeUntrimmed(cells, selectedText) ==
    IF cells = {} THEN "No text selected"
    ELSE IF selectedText = <<>> THEN "No valid text"
    ELSE "copied"

\* the branch handleCopy takes
copyOutcome(cells, selectedText) ==
    IF cells = {} THEN "No text selected"
    ELSE IF trim(selectedText) = <<>> THEN "No valid text"
    ELSE "copied"

\* handleCopy; payload is what copyToClipboard / navigator.clipboard.writeText
\* is given, when it is called
handleCopy ==
    LET selectedText == getSelectedText(text, selection)
        outcome == copyOutcome(highlighted, selectedText)
    IN  /\ call' = [fn |-> "handleCopy", status |-> outcome,
                    wrote |-> (outcome = "copied"),
                    payload |-> IF outcome = "copied" THEN selectedText ELSE <<>>]
        /\ UNCHANGED <<impl, text, selection, layout, highlighted, scan, pc, ret>>
        /\ UNCHANGED sessionVars
        /\ UNCHANGED faultVars

\* part_000 binds no mouseup outside the textarea: a release there runs no
\* handler
ReleaseOutside ==
    /\ impl = "part_000"
    /\ call' = [fn |-> "mouseup outside"]
    /\ UNCHANGED <<impl, text, selection, layout, highlighted, scan, pc, ret>>
    /\ UNCHANGED sessionVars
    /\ UNCHANGED faultVars

PageTexts == {<<>>, <<"a", " ", NL, "X">>}

\* pointer events with ctrl held or not
PageEvents == {e \in MouseEvents : ~e.metaKey}

InitPage ==
    /\ impl \in Pages
    /\ text = <<>>
    /\ Unselected
    /\ pc = "idle"
    /\ call = NoCall
    /\ ret = <<>>
    /\ Mounted("part_001")
    /\ budget = 0
    /\ Quiet

PageMouseDown == \E event \in PageEvents : handleMouseDown(event)
PageInput == \E value \in PageTexts : handleInput(value)

NextPage ==
    \/ PageMouseDown
    \/ MouseMove
    \/ MouseUp
    \/ handleWindowMouseUp
    \/ ReleaseOutside
    \/ handleClick
    \/ PageInput
    \/ handleCopy

SpecPage == InitPage /\ [][NextPage]_vars

----------------------------------------------------------------------------
(* Properties of the page (specification SpecPage) *)

\* nothing but blanks and line breaks
Blank(s) == \A i \in 1..Len(s) : s[i] \in {" ", NL}

Warnings == {"No text selected", "No valid text"}

\* C21: a copy asked for while no cell is highlighted, or while the block
\* extracted is empty or all white space, gives the clipboard nothing: it
\* ends in a warning status and leaves the text and the region as they were.
C21_NothingToCopy ==
    [][(call'.fn = "handleCopy"
          /\ (highlighted = {} \/ Blank(getSelectedText(text, selection))))
       => /\ ~call'.wrote
          /\ call'.status \in Warnings
          /\ text' = text
          /\ selection' = selection]_vars

\* a copy of a highlighted column that holds a blank and nothing else
C21_Witness ==
    /\ call.fn = "handleCopy" /\ ~call.wrote
    /\ call.status = "No valid text"
    /\ highlighted # {}
    /\ getSelectedText(text, selection) # <<>>
    /\ Blank(getSelectedText(text, selection))

\* the button released over the textarea or outside it
PointerUps == {"handleMouseUp", "handleWindowMouseUp", "mouseup outside"}

RegionOf(sel) == <<StartOf(sel), EndOf(sel), sel.active>>

\* C26: every pointer-up during an active drag, inside or outside the text
\* area, at a valid position or not, leaves the region inactive; from then on
\* no pointer-move changes the region until the next pointer-down.
C26_ReleaseEndsDrag ==
    [][/\ (selection.active /\ call'.fn \in PointerUps) => ~selection'.active
       /\ (~selection.active /\ call'.fn = "handleMouseMove")
          => RegionOf(selection') = RegionOf(selection)]_vars

\* the characters of the text as cells <<row, col>>
TextCells(txt) ==
    LET lines == splitLines(txt)
    IN  {cell \in (0..(Len(lines) - 1)) \X (0..Len(txt)) :
            cell[2] < Len(lines[cell[1] + 1])}

\* the characters of the text inside the rectangle from one cell to another
CellsBetween(from, to, txt) ==
    {cell \in TextCells(txt) :
        /\ Min(from[1], to[1]) <= cell[1] /\ cell[1] <= Max(from[1], to[1])
        /\ Min(from[2], to[2]) <= cell[2] /\ cell[2] <= Max(from[2], to[2])}

\* the highlighted spans that are characters (an empty line has one blank
\* span that is none)
HighlightedCells(cells, txt) == cells \cap TextCells(txt)

\* C27: whenever a copy gives the clipboard a payload, the payload is the
\* extraction of exactly the highlighted cells: the region and the
\* highlighting agree at that moment.
C27_CopyMatchesHighlight ==
    (call.fn = "handleCopy" /\ call.wrote)
    => /\ call.payload = getSelectedText(text, selection)
       /\ HighlightedCells(highlighted, text)
             = CellsBetween(StartOf(selection), EndOf(selection), text)

\* C28: after every pointer-move handled during an active drag the
\* highlighted cells are exactly the characters inside the rectangle from the
\* region's start to the position of that very event.
C28_HighlightFollowsMove ==
    [][(call'.fn = "handleMouseMove" /\ selection.active /\ ~call'.pos.null)
       => HighlightedCells(highlighted', text')
             = CellsBetween(StartOf(selection), CellOf(call'.pos), text')]_vars

----------------------------------------------------------------------------
(* Saved patterns *)

\* part_001 lines 309-324; the pattern copies the options ({...options}) and
\* goes to the front of the list. snapshot is not in the source: it keeps the
\* values as they were when the pattern was saved
savePattern(name) ==
    /\ impl = "part_001"
    /\ ~hung
    /\ trim(name) # <<>> /\ findText # <<>>
    /\ savedPatterns' =
          [savedPatterns EXCEPT !.entries =
              <<[name |-> name, find |-> findText, replace |-> replaceText,
                 options |-> options,
                 snapshot |-> <<findText, replaceText, options>>]>> \o @]
    /\ call' = [fn |-> "savePattern"]
    /\ UNCHANGED <<text, findText, replaceText, options, matches, currentMatchIndex,
                   history, batchReplacements, isInteractiveMode, selectedMatches,
                   appended, budget, errors, uncaught, hung>>
    /\ UNCHANGED pageVars

\* part_001 lines 326-330, and the scan effect on findText and options
loadPattern(j) ==
    /\ impl = "part_001"
    /\ ~hung
    /\ j \in 1..Len(savedPatterns.entries)
    /\ LET pattern == savedPatterns.entries[j]
       IN  /\ findText' = pattern.find
           /\ replaceText' = pattern.replace
           /\ options' = pattern.options
           /\ Rescan(text, pattern.find, pattern.options, matches, currentMatchIndex)
           /\ call' = [fn |-> "loadPattern",
                       restored |-> <<pattern.find, pattern.replace, pattern.options>>,
                       saved |-> pattern.snapshot]
    /\ UNCHANGED <<text, history, batchReplacements, isInteractiveMode, selectedMatches,
                   appended, budget, uncaught>>
    /\ UNCHANGED otherVars

\* the rule objects of the array a saved pattern holds
rulesOf(store, pattern) == [i \in 1..Len(pattern) |-> store[pattern[i]]]

\* what the Load button of a saved pattern passes to setBatchReplacements
rulesToLoad(entry, store) == rulesOf(store, entry.pattern)

\* FindReplace.tsx lines 664-671: { name, pattern: batchReplacements } keeps
\* the array itself, so the rule objects in it are those of the form. The
\* objects no pattern held yet are entered in store
savePatternTsx(name) ==
    /\ impl = "FindReplace.tsx"
    /\ ~hung
    /\ name # <<>>
    /\ LET cur == savedPatterns.current
           unheld == {i \in 1..Len(cur) : cur[i] = 0}
           rank(i) == Cardinality({m \in unheld : m <= i})
           entered == [k \in 1..Cardinality(unheld) |->
                          batchReplacements[CHOOSE i \in unheld : rank(i) = k]]
           objects == [i \in 1..Len(cur) |->
                          IF cur[i] # 0 THEN cur[i]
                          ELSE Len(savedPatterns.store) + rank(i)]
       IN  savedPatterns' =
              [store |-> savedPatterns.store \o entered,
               entries |-> Append(savedPatterns.entries,
                                  [name |-> name, pattern |-> objects,
                                   snapshot |-> batchReplacements]),
               current |-> objects]
    /\ call' = [fn |-> "setSavedPatterns"]
    /\ UNCHANGED <<text, findText, replaceText, options, matches, currentMatchIndex,
                   history, batchReplacements, isInteractiveMode, selectedMatches,
                   appended, budget, errors, uncaught, hung>>
    /\ UNCHANGED pageVars

\* FindReplace.tsx line 680: setBatchReplacements(pattern.pattern)
loadPatternTsx(j) ==
    /\ impl = "FindReplace.tsx"
    /\ ~hung
    /\ j \in 1..Len(savedPatterns.entries)
    /\ LET entry == savedPatterns.entries[j]
       IN  /\ batchReplacements' = rulesToLoad(entry, savedPatterns.store)
           /\ savedPatterns' = [savedPatterns EXCEPT !.current = entry.pattern]
           /\ call' = [fn |-> "loadPattern",
                       restored |-> rulesToLoad(entry, savedPatterns.store),
                       saved |-> entry.snapshot]
    /\ UNCHANGED <<text, findText, replaceText, options, matches, currentMatchIndex,
                   history, isInteractiveMode, selectedMatches, appended, budget,
                   errors, uncaught, hung>>
    /\ UNCHANGED pageVars

----------------------------------------------------------------------------
(* Specification of saving and loading: edits between a save and a load *)

MaxPatterns == 1

PatternName == <<"p">>
PatternFinds == {<<>>, <<"a">>, <<"X">>}
PatternReplaces == {<<>>, <<"y">>}
PatternToggles == {"caseSensitive", "useRegex"}
PatternRules == [find : {<<>>, <<"a">>}, replace : {<<>>}, enabled : BOOLEAN]

InitPatterns == \E component \in Components : InitSession(component, SessionText, 0)

\* the fields a pattern of part_001 saves, edited
EditFindText(v) == impl = "part_001" /\ SetFindText(v)
EditReplaceText(v) == impl = "part_001" /\ SetReplaceText(v)
EditOption(o) == impl = "part_001" /\ ToggleOption(o)

SavePattern ==
    /\ Len(savedPatterns.entries) < MaxPatterns
    /\ savePattern(PatternName)

SavePatternTsx ==
    /\ Len(savedPatterns.entries) < MaxPatterns
    /\ savePatternTsx(PatternName)

NextPatterns ==
    \/ \E v \in PatternFinds : EditFindText(v)
    \/ \E v \in PatternReplaces : EditReplaceText(v)
    \/ \E o \in PatternToggles : EditOption(o)
    \/ SavePattern
    \/ \E j \in 1..MaxPatterns : loadPattern(j)
    \/ \E i \in 1..MaxBatchRules, r \in PatternRules : SetBatchRuleTsx(i, r)
    \/ AddBatchRuleTsx
    \/ \E i \in 1..MaxBatchRules : RemoveBatchRuleTsx(i)
    \/ SavePatternTsx
    \/ \E j \in 1..MaxPatterns : loadPatternTsx(j)

SpecPatterns == InitPatterns /\ [][NextPatterns]_vars

\* C22: loading a saved pattern restores the values it was saved with,
\* whatever was edited in the find and replace fields, the options or the
\* batch rules between the save and the load.
C22_LoadRestoresSaved ==
    call.fn = "loadPattern" => call.restored = call.saved

----------------------------------------------------------------------------
(* Specification of scans that follow one another *)

MaxScans == 2       \* scans followed after the first

RescanTexts == {<<"a", "a">>, <<"a", "A", NL, "a">>}
RescanFinds == {<<"a">>, <<"a", "a">>}
RescanOptions(component) ==
    {[InitialOptions(component) EXCEPT !.useRegex = re, !.caseSensitive = cs] :
        re \in BOOLEAN, cs \in BOOLEAN}

InitRescan ==
    /\ InitScan
    /\ text \in RescanTexts
    /\ findText \in RescanFinds
    /\ options \in RescanOptions(impl)

\* the scan effect runs again (part_001 lines 107-114, FindReplace.tsx lines
\* 300-302) after the text, the find text or the options were set; ret keeps
\* the arguments and the matches of the scans that have returned
ScanAgain ==
    /\ pc = "returned"
    /\ Len(ret) < MaxScans
    /\ ret' = Append(ret, [text |-> text, findText |-> findText, options |-> options,
                           matches |-> matches])
    /\ text' \in RescanTexts
    /\ findText' \in RescanFinds
    /\ options' \in RescanOptions(impl)
    /\ pc' = "idle"
    /\ UNCHANGED <<impl, selection, layout, highlighted, replaceText, matches,
                   currentMatchIndex, history, batchReplacements, savedPatterns,
                   isInteractiveMode, selectedMatches, scan, call, appended, budget>>
    /\ UNCHANGED faultVars

NextRescan == ScanEnter \/ ScanIterate \/ ScanReturn \/ ScanAgain

SpecRescan == InitRescan /\ [][NextRescan]_vars

SameArguments(earlier) ==
    /\ earlier.text = text
    /\ earlier.findText = findText
    /\ earlier.options = options

\* C23: a scan is a function of the text, the find text and the options: two
\* scans with the same arguments return equal match lists, whatever was
\* scanned in between.
C23_ScanIsPure ==
    pc = "returned"
    => \A i \in 1..Len(ret) : SameArguments(ret[i]) => ret[i].matches = matches

\* the third scan has the arguments of the first, not of the second, and has
\* found matches
C23_Witness ==
    /\ pc = "returned" /\ Len(ret) = 2
    /\ SameArguments(ret[1]) /\ ~SameArguments(ret[2])
    /\ Len(ret[2].matches) > 0
    /\ Len(matches) > 1

----------------------------------------------------------------------------
(* Specification of whole-word scans of literal find texts *)

MaxWordLen == 3

WordTexts == StringsUpTo({"a", "-", "_", NL}, MaxWordLen)
WordFinds == {<<"a">>, <<"-", "a">>, <<"a", "-">>}
WordOptions(component) ==
    {[InitialOptions(component) EXCEPT !.wholeWord = TRUE, !.caseSensitive = cs] :
        cs \in BOOLEAN}

InitWord ==
    /\ impl \in Components
    /\ text \in WordTexts
    /\ findText \in WordFinds
    /\ options \in WordOptions(impl)
    /\ Unselected
    /\ replaceText = <<>>
    /\ matches = <<>>
    /\ currentMatchIndex = (IF impl = "part_001" THEN -1 ELSE 0)
    /\ history = <<>>
    /\ batchReplacements = InitialBatch(impl)
    /\ savedPatterns = NoPatterns(impl, batchReplacements)
    /\ isInteractiveMode = FALSE
    /\ selectedMatches = {}
    /\ appended = 0
    /\ budget = 0
    /\ pc = "idle"
    /\ call = NoCall
    /\ ret = <<>>
    /\ Quiet

NextWord == ScanEnter \/ ScanIterate \/ ScanReturn

SpecWord == InitWord /\ [][NextWord]_vars

\* a letter or a digit at 1-based position i of the text: a word character
\* for the \b of part_001 and for the [a-zA-Z0-9] test of FindReplace.tsx
\* alike (the underscore, on which the two differ, is left out)
WordCharAt(i) == i >= 1 /\ i <= Len(text) /\ text[i] \in AlnumChars

\* C24: with wholeWord set on a literal search no match has a word character
\* right before its start or right at its end, also when the find text
\* begins or ends with a character that is not a word character.
C24_WholeWord ==
    (pc = "returned" /\ options.wholeWord /\ ~options.useRegex)
    => \A i \in 1..Len(matches) :
          /\ ~WordCharAt(startOffset(matches[i]))
          /\ ~WordCharAt(endOffset(matches[i]) + 1)

----------------------------------------------------------------------------
(* Specification of scans of one long line: the context window *)

MaxPad == 51        \* most characters on either side of the match

\* the lengths around the two radii
PadLengths == {0, ContextRadiusTsx, ContextRadiusTsx + 1, ContextRadius, MaxPad}

Pad(n) == [i \in 1..n |-> "x"]

\* one line holding one "a"
ContextTexts == {Pad(p) \o <<"a">> \o Pad(q) : p \in PadLengths, q \in PadLengths}

ContextOptions(component) ==
    {[InitialOptions(component) EXCEPT !.caseSensitive = cs, !.useRegex = re] :
        cs \in BOOLEAN, re \in BOOLEAN}

InitContext ==
    /\ impl \in Components
    /\ text \in ContextTexts
    /\ findText = <<"a">>
    /\ options \in ContextOptions(impl)
    /\ Unselected
    /\ replaceText = <<>>
    /\ matches = <<>>
    /\ currentMatchIndex = (IF impl = "part_001" THEN -1 ELSE 0)
    /\ history = <<>>
    /\ batchReplacements = InitialBatch(impl)
    /\ savedPatterns = NoPatterns(impl, batchReplacements)
    /\ isInteractiveMode = FALSE
    /\ selectedMatches = {}
    /\ appended = 0
    /\ budget = 0
    /\ pc = "idle"
    /\ call = NoCall
    /\ ret = <<>>
    /\ Quiet

NextContext == ScanEnter \/ ScanIterate \/ ScanReturn

SpecContext == InitContext /\ [][NextContext]_vars

\* the characters of the line a context shows before and after its match
MatchAt(context) == CHOOSE k \in 1..Len(context) : context[k] = "a"
ShownBefore(context) ==
    Cardinality({k \in 1..Len(context) : k < MatchAt(context) /\ context[k] = "x"})
ShownAfter(context) ==
    Cardinality({k \in 1..Len(context) : k > MatchAt(context) /\ context[k] = "x"})

StartsWithEllipsis(context) ==
    Len(context) >= Len(Ellipsis) /\ SubSeq(context, 1, Len(Ellipsis)) = Ellipsis
EndsWithEllipsis(context) ==
    /\ Len(context) >= Len(Ellipsis)
    /\ SubSeq(context, Len(context) - Len(Ellipsis) + 1, Len(context)) = Ellipsis

\* C25: a context that leaves out characters of the line before its match
\* begins with the ellipsis marker and one that leaves out characters after
\* its match ends with it, also when it leaves out characters on both sides.
C25_ContextEllipsis ==
    pc = "returned" =>
        \A i \in 1..Len(matches) :
            LET context == matches[i].context
                before == startOffset(matches[i])
                after == Len(text) - endOffset(matches[i])
            IN  /\ ShownBefore(context) < before => StartsWithEllipsis(context)
                /\ ShownAfter(context) < after => EndsWithEllipsis(context)

----------------------------------------------------------------------------
(* Invariants of the find/replace session (Spec) *)

ValidIndices == 0..(Len(matches) - 1)

\* C29: every index in the interactive selection (selectedMatches) is an index
\* of the current match list, whatever toggles of a selection, re-scans after
\* a change of the find text, the options or the text, and replaces came before.
C29_SelectedAreListed == selectedMatches \subseteq ValidIndices

\* C30: currentMatchIndex is -1 while the match list is empty and an index of
\* the list otherwise: after mounting, after a scan that threw on an invalid
\* regex, after the find text was emptied and after a replace.
C30_CurrentIndexValid ==
    IF matches = <<>> THEN currentMatchIndex = -1
    ELSE currentMatchIndex \in ValidIndices

====
